---- MODULE Spec2Model ----
(***************************************************************************)
(* A model of the migration planner: the provisioning and teardown scripts *)
(* (src/backend/infrastructure.py, src/backend/cleanup.py), the Lambda     *)
(* functions (src/backend/lambda) and the front end (src/frontend/app.py). *)
(*                                                                         *)
(* The AWS account and the local record file are the state.  Every boto3   *)
(* call is a nondeterministic choice among the answers AWS can give: the   *)
(* truthful answer for the resource's state, a ClientError with another    *)
(* error code, or an exception that is not a ClientError (a connection     *)
(* error).  The Python try/except structure decides what each answer does. *)
(*                                                                         *)
(* Specifications sharing the module:                                      *)
(*   Spec          provisioning and cleanup runs over one new account      *)
(*   SpecClean     one cleanup run over an account in any state            *)
(*   SpecUpdate    update_lambda_function and wait_for_lambda_update       *)
(*   SpecBucket    delete_s3_bucket over a versioned bucket's listing      *)
(*   SpecRoutes    update_api_routes over a gateway's routes, run again    *)
(*   SpecRace      two provisioning runs writing the record file           *)
(*   SpecRoadmap   generate_migration_roadmap and its cost calls           *)
(*   SpecDiscovery collect_advanced_server_data                            *)
(*   SpecWeb       the front end's upload, servers, analyze and estimate   *)
(*   SpecCost      the cost estimator's compute, storage, migration parts  *)
(*   SpecStrength  calculate_dependency_strength over one dependency       *)
(*   SpecIndirect  analyze_indirect_dependencies over a dependency map     *)
(* Each leaves the other groups of variables at their idle values.         *)
(***************************************************************************)
EXTENDS Integers, Sequences, FiniteSets, TLC

VARIABLES
    \* ---- the account and the record file
    record,            \* infrastructure_details.json: NoRecord, or the saved record
    buckets,           \* names (timestamps) of the existing migration-planner-data-* buckets
    tables,            \* names (timestamps) of the existing migration-assessments-* tables
    role,              \* migration_planner_lambda_role exists
    funcs,             \* the functions that exist
    logs,              \* the functions whose /aws/lambda/ log group exists
    api,               \* ApiId of the API named migration-planner-api, 0 if none
    alarms,            \* some alarm of AlarmNames exists
    nBuckets, nTables, nApis,   \* names and ids handed out so far
    runs,              \* runs of either script started so far
    everFailed,        \* some call of some run so far failed: it answered with an
                       \* error other than "not found" for a resource that is absent
    \* ---- a provisioning run (InfrastructureManager)
    provPc,            \* position in create_infrastructure
    existing,          \* self.existing_infrastructure, read by the constructor
    bucket_name, table_name, lambda_functions, api_url,   \* locals of create_infrastructure
    provSteps,         \* the steps that returned normally, in order
    provCreates,       \* the kinds (bucket, table, role) a create call was issued for
    provPremise,       \* at the start: record present, its bucket and table exist, role exists
    \* ---- a cleanup run (InfrastructureCleanup)
    cleanPc,           \* position in cleanup
    infra_details,     \* self.infra_details, read by the constructor
    cleanSteps,        \* the deletion steps entered, in order
    cleanFn,           \* index in FuncOrder of delete_lambda_functions' loop
    cleanReturned,     \* the number of deletion steps that have returned
    notFoundLogged,    \* resources a "not found" message was printed for
    cleanFault,        \* some call of the run answered with an error other than not found
    cleanChanged,      \* some delete call of the run removed something
    cleanAllGone,      \* at the start every resource of the record was already deleted
    audit,             \* the run's printed messages and effects are recorded (the four above)
    \* ---- update_lambda_function / wait_for_lambda_update
    uPc,               \* position in update_lambda_function
    uAttempt,          \* its loop variable `attempt`
    uPhase,            \* which of its three waits is under way or was last
    uCodeIssued,       \* update_function_code was accepted in this attempt
    uCfgIssued,        \* update_function_configuration was accepted in this attempt
    uReadySeen,        \* the waits of this attempt that returned True
    uConflicts,        \* conflict answers to the two update calls so far
    uSlept,            \* the sleeps between attempts, in order
    uWhy,              \* how it ended: the value returned or the error raised
    wAttempt,          \* wait_for_lambda_update's loop variable `attempt`
    wPolls,            \* get_function calls of the current wait
    wSlept,            \* the sleeps of the current wait, in order
    wLast,             \* the answer to its last get_function call
    wSawReady,         \* some poll of it saw State Active, LastUpdateStatus not InProgress
    wResult,           \* "none" while it polls, then what it returned or raised
    \* ---- delete_s3_bucket
    bPc,               \* position in delete_s3_bucket
    bExists,           \* the bucket exists
    bKind,             \* the listing: entry i is a "version" or a "marker"
    bObjs,             \* the entries of the listing still in the bucket
    bPage,             \* the page of the listing the loop is at
    bSubmitted,        \* the entries passed to a delete_objects call
    bWarned,           \* "Warning: Error deleting bucket contents" was printed
    bRefused,          \* a delete_objects response reported entries it did not delete
    bIssued,           \* delete_bucket was called
    bLeft,             \* the entries in the bucket when delete_bucket was called
    \* ---- update_api_routes
    rPc,               \* position in update_api_routes
    rIdx,              \* index in RouteOrder of the loop
    rFns,              \* the keys of the lambda_functions argument
    rRoutes,           \* the gateway's routes: [id, key, target]
    rIntegrations,     \* the gateway's integrations: [id, fn]
    rPerms,            \* the statement ids of the functions' resource policies
    rNextId,           \* ids AWS has handed out
    rPermSeen,         \* the answers add_permission got in this call
    rHadRoute,         \* a route with one of the three keys existed before the call
    rWhy               \* the call that made update_api_routes raise

lifeVars == <<record, buckets, tables, role, funcs, logs, api, alarms,
              nBuckets, nTables, nApis, runs>>
failVars == <<everFailed>>
provVars == <<provPc, existing, bucket_name, table_name, lambda_functions, api_url,
              provSteps, provCreates, provPremise>>
cleanVars == <<cleanPc, infra_details, cleanSteps, cleanFn, cleanReturned, notFoundLogged,
               cleanFault, cleanChanged, cleanAllGone, audit>>
updVars == <<uPc, uAttempt, uPhase, uCodeIssued, uCfgIssued, uReadySeen, uConflicts,
             uSlept, uWhy, wAttempt, wPolls, wSlept, wLast, wSawReady, wResult>>
bktVars == <<bPc, bExists, bKind, bObjs, bPage, bSubmitted, bWarned, bRefused,
             bIssued, bLeft>>
rtVars == <<rPc, rIdx, rFns, rRoutes, rIntegrations, rPerms, rNextId, rPermSeen,
            rHadRoute, rWhy>>
coreVars == <<lifeVars, failVars, provVars, cleanVars, updVars, bktVars, rtVars>>

VARIABLES
    \* ---- two provisioning runs sharing infrastructure_details.json (SpecRace)
    rcPc,              \* where each run is: new, running, open, done, raised
    rcExists,          \* the file exists
    rcFile,            \* the file's bytes, in pieces: <<run that wrote it, piece number>>
    rcLen,             \* pieces in the text json.dump makes of each run's infra_details
    rcView,            \* each run's existing_infrastructure
    rcSaw,             \* what the file held when each run's constructor read it
    rcLast             \* the run whose write came last, 0 if none

raceVars == <<rcPc, rcExists, rcFile, rcLen, rcView, rcSaw, rcLast>>

VARIABLES
    \* ---- one call of generate_migration_roadmap (SpecRoadmap)
    rmPc,              \* idle, loop, returned
    rmServers,         \* the servers argument
    rmStartArg,        \* the start_date argument: -1 for None, 0 for '', else a day
    rmNow,             \* datetime.now(): <<day, time of day>>
    rmSorted,          \* sorted_servers
    rmIdx,             \* position of the loop in sorted_servers
    rmCurrent,         \* current_date: <<day, time of day>>
    rmTimeline,        \* timeline
    rmTotal,           \* total_cost
    rmRemote,          \* per timeline entry, how the invoke of the cost function went
    rmSummary          \* summary['servers'] of generate_project_summary: the two breakdowns

rmVars == <<rmPc, rmServers, rmStartArg, rmNow, rmSorted, rmIdx, rmCurrent, rmTimeline,
            rmTotal, rmRemote, rmSummary>>

VARIABLES
    \* ---- one call of collect_advanced_server_data (SpecDiscovery)
    dPc,               \* idle, loop, returned, raised
    dServerId,         \* the server_id argument is given
    dFound,            \* len(servers['servers'])
    dIdx,              \* position of the loop in servers['servers']
    dStep,             \* position in DiscSteps within the pass
    dParts,            \* the parts of the server_data being built: filled or empty
    dCollected,        \* collected_data
    dResult,           \* what was returned: none, collected, sample
    dFailed            \* the calls that failed in this run: <<call, error>>

discVars == <<dPc, dServerId, dFound, dIdx, dStep, dParts, dCollected, dResult, dFailed>>

VARIABLES
    \* ---- the front end's test-server.json and its last request (SpecWeb)
    webHasFile,        \* test-server.json exists
    webFile,           \* its servers: serverId -> what the server's metrics hold
    webReq,            \* the last request: endpoint, body or file, serverId
    webStatus,         \* the status code of the response to it, 0 before any
    webResults,        \* the length of the results list in the response
    webStored          \* the answer of the put_item that stored the result

webVars == <<webHasFile, webFile, webReq, webStatus, webResults, webStored>>

VARIABLES
    \* ---- one call of CostEstimator.calculate_total_cost (SpecCost)
    cPc,               \* idle, compute, storage, migration, done
    cSpecs,            \* server_specs: the figures under 'metrics' and the dependencies
    cUseFreeTier,      \* use_free_tier
    cInstance,         \* instance_type chosen by estimate_compute_costs
    cHours,            \* monthly_hours - free_hours, the hours billed
    cEbsType,          \* storage_type chosen by _calculate_ebs_costs
    cS3Storage,        \* storage billed by _calculate_s3_costs, in 1/10240 GB
    cS3Put,            \* put_requests billed by _calculate_s3_costs
    cCpuPoints,        \* what cpu_util added to complexity_score
    cScore             \* complexity_score

costVars == <<cPc, cSpecs, cUseFreeTier, cInstance, cHours, cEbsType, cS3Storage, cS3Put,
              cCpuPoints, cScore>>
VARIABLES
    \* ---- DiscoveryProcessor's dependency scoring and traversal (SpecStrength, SpecIndirect)
    sPc,               \* idle, drawn, done
    sDependency,       \* the dependency record passed to calculate_dependency_strength
    sStrength,         \* what it returned, in hundredths
    gPc,               \* idle, built, running, returned
    gMap,              \* self.dependency_map: server id -> its direct_deps
    gVisited,          \* visited of analyze_indirect_dependencies
    gStack,            \* the calls of find_indirect_deps in progress, innermost last
    gIndirect          \* indirect_deps, the list it returns

depVars == <<sPc, sDependency, sStrength, gPc, gMap, gVisited, gStack, gIndirect>>
extVars == <<raceVars, rmVars, discVars, webVars, costVars, depVars>>
vars == <<coreVars, extVars>>

(***************************************************************************)
(* Bounds of the model.                                                    *)
(***************************************************************************)
\* Fresh bucket names, table names and API ids AWS and the clock hand out.
MaxNames == 2
\* Runs of the two scripts, one after the other.
MaxRuns == 3

(***************************************************************************)
(* Answers of AWS and Python's except clauses.                             *)
(***************************************************************************)
\* botocore ClientError codes the code tells apart, and "exc": an exception
\* that is not a ClientError.
ClientErrors == {"NotFound", "AccessDenied", "Conflict"}

\* What a describe/head/get call can answer for a resource that exists or not.
CheckResp(exists) ==
    (IF exists THEN {"ok"} ELSE {"NotFound"}) \cup {"AccessDenied", "exc"}

\* What a creating call sequence can do: succeed, raise before the resource
\* is created, or raise after it was created (a later configuration call failed).
CreateResp == {"ok", "fail", "fail_after"}

\* The three functions, in the order both scripts process them.
FuncOrder == <<"discoveryProcessor", "costEstimator", "roadmapGenerator">>
Funcs == {FuncOrder[i] : i \in 1..Len(FuncOrder)}

\* The alarms setup_cloudwatch_monitoring puts, in order.
AlarmNames == <<"migration-planner-discoveryProcessor-errors",
                "migration-planner-costEstimator-errors",
                "migration-planner-roadmapGenerator-errors",
                "migration-planner-api-latency",
                "migration-planner-dynamodb-throttles">>

\* The record file's content; a missing file loads as {} (no key present).
NoRecord == [present |-> FALSE, bucket_name |-> 0, table_name |-> 0, api_url |-> 0]
MkRecord(b, t, a) == [present |-> TRUE, bucket_name |-> b, table_name |-> t, api_url |-> a]

\* load_existing_infrastructure / load_infrastructure_details
load_existing_infrastructure == record

(***************************************************************************)
(* create_infrastructure                                                   *)
(***************************************************************************)
\* A faulty order, for comparison: the record written before the alarms are set up.
ProvOrderSaveBeforeAlarms ==
    <<"bucket", "table", "role", "functions", "gateway", "save", "alarms">>

\* The order of the steps of create_infrastructure, then the save.
ProvOrder == <<"bucket", "table", "role", "functions", "gateway", "alarms", "save">>

ProvAfter(step) ==
    LET i == CHOOSE j \in 1..Len(ProvOrder) : ProvOrder[j] = step
    IN  IF i < Len(ProvOrder) THEN ProvOrder[i + 1] ELSE "done"

\* An existence check failed: it was made, and answered with an error that
\* does not tell that the resource is absent.
CheckFailed(made, resp) == made /\ resp \in {"AccessDenied", "exc"}

\* A step returned normally (`fault`: after a call of it had failed) / raised:
\* create_infrastructure re-raises (line 638).
ProvStepOk(step, fault) ==
    /\ provPc' = ProvAfter(step)
    /\ provSteps' = Append(provSteps, step)
    /\ everFailed' = (everFailed \/ fault)

ProvStepRaise ==
    /\ provPc' = "failed"
    /\ provSteps' = provSteps
    /\ everFailed' = TRUE

\* The constructor reads the record, then create_infrastructure starts.
ProvStart ==
    /\ provPc = "idle" /\ cleanPc = "idle"
    /\ provPc' = "bucket"
    /\ existing' = load_existing_infrastructure
    /\ provPremise' = (record.present /\ record.bucket_name \in buckets
                         /\ record.table_name \in tables /\ role)
    /\ provSteps' = <<>>
    /\ provCreates' = {}
    /\ runs < MaxRuns /\ runs' = runs + 1
    /\ UNCHANGED <<bucket_name, table_name, lambda_functions, api_url>>
    /\ UNCHANGED <<record, buckets, tables, role, funcs, logs, api, alarms,
                   nBuckets, nTables, nApis, everFailed>>
    /\ UNCHANGED <<cleanVars, updVars, bktVars, rtVars, extVars>>

\* The reuse branch of create_s3_bucket and create_dynamodb_table: with the
\* key in the record, the check's normal return reuses the name, any
\* ClientError falls through to creation, anything else propagates.
ReuseDecision(hasKey, resp) ==
    IF ~hasKey THEN "create"
    ELSE IF resp = "ok" THEN "reuse"
    ELSE IF resp \in ClientErrors THEN "create"
    ELSE "raise"

create_s3_bucket ==
    /\ provPc = "bucket"
    /\ \E resp \in CheckResp(existing.present /\ existing.bucket_name \in buckets),
          cr \in CreateResp :
         LET d == ReuseDecision(existing.present, resp)
             new == nBuckets + 1
         IN  \/ /\ d = "reuse"
                /\ bucket_name' = existing.bucket_name
                /\ ProvStepOk("bucket", FALSE)
                /\ UNCHANGED <<buckets, nBuckets, provCreates>>
             \/ /\ d = "raise"
                /\ ProvStepRaise
                /\ UNCHANGED <<buckets, nBuckets, provCreates, bucket_name>>
             \/ /\ d = "create"
                /\ cr # "fail" => nBuckets < MaxNames
                /\ provCreates' = provCreates \cup {"bucket"}
                /\ IF cr = "fail"
                   THEN UNCHANGED <<buckets, nBuckets>>
                   ELSE buckets' = buckets \cup {new} /\ nBuckets' = new
                /\ IF cr = "ok"
                   THEN /\ bucket_name' = new
                        /\ ProvStepOk("bucket", CheckFailed(existing.present, resp))
                   ELSE UNCHANGED bucket_name /\ ProvStepRaise
    /\ UNCHANGED <<record, tables, role, funcs, logs, api, alarms, nTables, nApis, runs>>
    /\ UNCHANGED <<existing, table_name, lambda_functions, api_url, provPremise>>
    /\ UNCHANGED <<cleanVars, updVars, bktVars, rtVars, extVars>>

create_dynamodb_table ==
    /\ provPc = "table"
    /\ \E resp \in CheckResp(existing.present /\ existing.table_name \in tables),
          cr \in CreateResp :
         LET d == ReuseDecision(existing.present, resp)
             new == nTables + 1
         IN  \/ /\ d = "reuse"
                /\ table_name' = existing.table_name
                /\ ProvStepOk("table", FALSE)
                /\ UNCHANGED <<tables, nTables, provCreates>>
             \/ /\ d = "raise"
                /\ ProvStepRaise
                /\ UNCHANGED <<tables, nTables, provCreates, table_name>>
             \/ /\ d = "create"
                /\ cr # "fail" => nTables < MaxNames
                /\ provCreates' = provCreates \cup {"table"}
                /\ IF cr = "fail"
                   THEN UNCHANGED <<tables, nTables>>
                   ELSE tables' = tables \cup {new} /\ nTables' = new
                /\ IF cr = "ok"
                   THEN /\ table_name' = new
                        /\ ProvStepOk("table", CheckFailed(existing.present, resp))
                   ELSE UNCHANGED table_name /\ ProvStepRaise
    /\ UNCHANGED <<record, buckets, role, funcs, logs, api, alarms, nBuckets, nApis, runs>>
    /\ UNCHANGED <<existing, bucket_name, lambda_functions, api_url, provPremise>>
    /\ UNCHANGED <<cleanVars, updVars, bktVars, rtVars, extVars>>

\* create_lambda_role: get_role's normal return reuses the role; any
\* ClientError leads to create_role, anything else propagates.
RoleDecision(resp) ==
    IF resp = "ok" THEN "reuse"
    ELSE IF resp \in ClientErrors THEN "create"
    ELSE "raise"

create_lambda_role ==
    /\ provPc = "role"
    /\ \E resp \in CheckResp(role), cr \in CreateResp :
         LET d == RoleDecision(resp)
         IN  \/ /\ d = "reuse"
                /\ ProvStepOk("role", FALSE)
                /\ UNCHANGED <<role, provCreates>>
             \/ /\ d = "raise"
                /\ ProvStepRaise
                /\ UNCHANGED <<role, provCreates>>
             \/ /\ d = "create"
                \* create_role of a role that exists answers EntityAlreadyExists
                /\ role => cr = "fail"
                /\ provCreates' = provCreates \cup {"role"}
                /\ role' = (role \/ cr # "fail")
                /\ IF cr = "ok" THEN ProvStepOk("role", CheckFailed(TRUE, resp))
                   ELSE ProvStepRaise
    /\ UNCHANGED <<record, buckets, tables, funcs, logs, api, alarms,
                   nBuckets, nTables, nApis, runs>>
    /\ UNCHANGED <<existing, bucket_name, table_name, lambda_functions, api_url,
                   provPremise>>
    /\ UNCHANGED <<cleanVars, updVars, bktVars, rtVars, extVars>>

\* create_lambda_functions, per function: "skip" (no handler file), "ok"
\* (created, or updated by update_lambda_function), "fail" (the existence
\* check, the update, the creation or the zip raised; no function created),
\* "created_then_fail" (created, then the final get_function raised).
FnOutcomes == {"skip", "ok", "fail", "created_then_fail"}

FnRaises(o, i) == o[FuncOrder[i]] \in {"fail", "created_then_fail"}

\* Index of the first function whose setup raises, Len(FuncOrder) + 1 if none:
\* the loop ends at the first raise (line 202).
FnStop(o) ==
    IF \E i \in 1..Len(FuncOrder) : FnRaises(o, i)
    THEN CHOOSE i \in 1..Len(FuncOrder) :
             FnRaises(o, i) /\ \A j \in 1..(i - 1) : ~FnRaises(o, j)
    ELSE Len(FuncOrder) + 1

\* lambda_functions: the keys given an ARN before the loop ended.
FnConfigured(o) ==
    {FuncOrder[i] : i \in {j \in 1..(FnStop(o) - 1) : o[FuncOrder[j]] = "ok"}}

\* The functions that exist afterwards.
FnExisting(o) ==
    funcs \cup FnConfigured(o)
          \cup (IF FnStop(o) <= Len(FuncOrder)
                   /\ o[FuncOrder[FnStop(o)]] = "created_then_fail"
                THEN {FuncOrder[FnStop(o)]} ELSE {})

create_lambda_functions ==
    /\ provPc = "functions"
    /\ \E o \in [Funcs -> FnOutcomes] :
         /\ funcs' = FnExisting(o)
         /\ IF FnStop(o) <= Len(FuncOrder)
            THEN ProvStepRaise /\ UNCHANGED lambda_functions
            ELSE ProvStepOk("functions", FALSE) /\ lambda_functions' = FnConfigured(o)
    /\ UNCHANGED <<record, buckets, tables, role, logs, api, alarms,
                   nBuckets, nTables, nApis, runs>>
    /\ UNCHANGED <<existing, bucket_name, table_name, api_url, provCreates, provPremise>>
    /\ UNCHANGED <<cleanVars, updVars, bktVars, rtVars, extVars>>

\* create_api_gateway: "fail_early" (get_apis or create_api raised),
\* "fail_late" (create_stage or update_api_routes raised), "ok".
\* update_api_routes raises KeyError when a function was skipped (line 532).
GatewayResp == {"ok", "fail_early", "fail_late"}

create_api_gateway ==
    /\ provPc = "gateway"
    /\ \E g \in GatewayResp :
         /\ g = "ok" => lambda_functions = Funcs
         /\ IF api # 0
            THEN \* an API of that name is listed: reuse it, rewire its routes
                 /\ UNCHANGED <<api, nApis>>
                 /\ IF g = "ok"
                    THEN api_url' = api /\ ProvStepOk("gateway", FALSE)
                    ELSE UNCHANGED api_url /\ ProvStepRaise
            ELSE /\ g # "fail_early" => nApis < MaxNames
                 /\ IF g = "fail_early"
                    THEN UNCHANGED <<api, nApis>>
                    ELSE api' = nApis + 1 /\ nApis' = nApis + 1
                 /\ IF g = "ok"
                    THEN api_url' = nApis + 1 /\ ProvStepOk("gateway", FALSE)
                    ELSE UNCHANGED api_url /\ ProvStepRaise
    /\ UNCHANGED <<record, buckets, tables, role, funcs, logs, alarms, nBuckets, nTables, runs>>
    /\ UNCHANGED <<existing, bucket_name, table_name, lambda_functions,
                   provCreates, provPremise>>
    /\ UNCHANGED <<cleanVars, updVars, bktVars, rtVars, extVars>>

\* setup_cloudwatch_monitoring: put_metric_alarm for each alarm in order; the
\* first k puts succeed, and the step raises unless all did.
setup_cloudwatch_monitoring ==
    /\ provPc = "alarms"
    /\ \E k \in 0..Len(AlarmNames) :
         /\ alarms' = (alarms \/ k > 0)
         /\ IF k = Len(AlarmNames) THEN ProvStepOk("alarms", FALSE) ELSE ProvStepRaise
    /\ UNCHANGED <<record, buckets, tables, role, funcs, logs, api,
                   nBuckets, nTables, nApis, runs>>
    /\ UNCHANGED <<existing, bucket_name, table_name, lambda_functions, api_url,
                   provCreates, provPremise>>
    /\ UNCHANGED <<cleanVars, updVars, bktVars, rtVars, extVars>>

\* infra_details, written to the record file and returned.
infra_details_of_run == MkRecord(bucket_name, table_name, api_url)

save_infrastructure_details ==
    /\ provPc = "save"
    /\ record' = infra_details_of_run
    /\ ProvStepOk("save", FALSE)
    /\ UNCHANGED <<buckets, tables, role, funcs, logs, api, alarms,
                   nBuckets, nTables, nApis, runs>>
    /\ UNCHANGED <<existing, bucket_name, table_name, lambda_functions, api_url,
                   provCreates, provPremise>>
    /\ UNCHANGED <<cleanVars, updVars, bktVars, rtVars, extVars>>

\* The process ends: main() prints and returns.
ProvIdle ==
    /\ provPc = "idle" /\ existing = NoRecord
    /\ bucket_name = 0 /\ table_name = 0 /\ lambda_functions = {} /\ api_url = 0
    /\ provSteps = <<>> /\ provCreates = {} /\ provPremise = FALSE

ProvReturn ==
    /\ provPc \in {"done", "failed"}
    /\ provPc' = "idle" /\ existing' = NoRecord
    /\ bucket_name' = 0 /\ table_name' = 0 /\ lambda_functions' = {} /\ api_url' = 0
    /\ provSteps' = <<>> /\ provCreates' = {} /\ provPremise' = FALSE
    /\ UNCHANGED <<lifeVars, failVars, cleanVars, updVars, bktVars, rtVars, extVars>>

(***************************************************************************)
(* cleanup                                                                 *)
(***************************************************************************)
\* A faulty order, for comparison: the bucket deleted before the table.
CleanOrderBucketBeforeTable ==
    <<"alarms", "gateway", "functions", "role", "bucket", "table">>

\* The order of the deletion calls of cleanup().
CleanOrder == <<"alarms", "gateway", "functions", "role", "table", "bucket">>

\* A faulty successor, for comparison: the role deletion is left out.
CleanAfterSkipsRole(step) ==
    IF step = "functions" THEN "table"
    ELSE LET i == CHOOSE j \in 1..Len(CleanOrder) : CleanOrder[j] = step
         IN  IF i < Len(CleanOrder) THEN CleanOrder[i + 1] ELSE "remove"

CleanAfter(step) ==
    LET i == CHOOSE j \in 1..Len(CleanOrder) : CleanOrder[j] = step
    IN  IF i < Len(CleanOrder) THEN CleanOrder[i + 1] ELSE "remove"

\* What a Python except clause catches of an error e.
Catches(clause, e) ==
    \/ clause = "Exception"
    \/ clause = "ClientError" /\ e \in ClientErrors

\* A faulty table of clauses, for comparison: delete_dynamodb_table handling
\* ClientError only.
OuterClauseTableClientError ==
    [alarms |-> "Exception", gateway |-> "Exception", functions |-> "Exception",
     role |-> "Exception", table |-> "ClientError", bucket |-> "Exception"]

\* The outermost except clause of each deletion method.
OuterClause ==
    [alarms |-> "Exception", gateway |-> "Exception", functions |-> "Exception",
     role |-> "Exception", table |-> "Exception", bucket |-> "Exception"]

\* A faulty variant, for comparison: head_bucket's 404 returns without a message.
PrintsNotFoundSilentBucket(step, resp) ==
    CASE step = "alarms" -> resp = "empty"
      [] step \in {"gateway", "role", "table"} -> resp = "NotFound"
      [] OTHER -> FALSE

\* Whether a deletion method prints a "not found" message for its lookup's
\* answer.  delete_cloudwatch_alarms prints "No CloudWatch alarms found to
\* delete" for an empty listing; delete_lambda_functions prints nothing for a
\* ResourceNotFoundException, neither for the function nor for its log group.
PrintsNotFound(step, resp) ==
    CASE step = "alarms" -> resp = "empty"
      [] step \in {"gateway", "role", "table", "bucket"} -> resp = "NotFound"
      [] OTHER -> FALSE

\* The constructor reads the record; cleanup() returns at once on an empty one.
CleanStart ==
    /\ provPc = "idle" /\ cleanPc = "idle"
    /\ infra_details' = record
    /\ cleanPc' = IF record.present THEN CleanOrder[1] ELSE "done"
    /\ cleanAllGone' = (/\ audit /\ record.present
                        /\ ~alarms /\ api # record.api_url
                        /\ funcs = {} /\ logs = {} /\ ~role
                        /\ record.table_name \notin tables
                        /\ record.bucket_name \notin buckets)
    /\ UNCHANGED <<cleanSteps, cleanFn, cleanReturned, notFoundLogged, cleanFault,
                   cleanChanged, audit>>
    /\ runs < MaxRuns /\ runs' = runs + 1
    /\ UNCHANGED <<record, buckets, tables, role, funcs, logs, api, alarms,
                   nBuckets, nTables, nApis, everFailed>>
    /\ UNCHANGED <<provVars, updVars, bktVars, rtVars, extVars>>

\* What a deletion method did: `nf` whether it printed "not found", `fault`
\* whether a call answered with an error other than not found, `chg` whether
\* it removed something.
CleanNote(step, nf, fault, chg) ==
    /\ everFailed' = (everFailed \/ fault)
    /\ IF audit
       THEN /\ notFoundLogged' = IF nf THEN notFoundLogged \cup {step}
                                 ELSE notFoundLogged
            /\ cleanFault' = (cleanFault \/ fault)
            /\ cleanChanged' = (cleanChanged \/ chg)
       ELSE UNCHANGED <<notFoundLogged, cleanFault, cleanChanged>>

\* A deletion method ends, with `e` the error that reached its outermost
\* handler ("none" if none did): caught there, cleanup() goes on to the next
\* call; otherwise it propagates out of cleanup().
CleanStepEnd(step, e) ==
    IF e = "none" \/ Catches(OuterClause[step], e)
    THEN cleanPc' = CleanAfter(step) /\ cleanReturned' = cleanReturned + 1
    ELSE cleanPc' = "raised" /\ UNCHANGED cleanReturned

\* Answers of a call that acts on a resource known to exist.
CallResp == {"ok", "AccessDenied", "exc"}

delete_cloudwatch_alarms ==
    /\ cleanPc = "alarms"
    /\ cleanSteps' = Append(cleanSteps, "alarms")
    /\ \E d \in CallResp, r \in CallResp :
         IF d # "ok"
         THEN /\ CleanNote("alarms", FALSE, TRUE, FALSE)
              /\ CleanStepEnd("alarms", d)
              /\ UNCHANGED alarms
         ELSE IF ~alarms
         THEN /\ CleanNote("alarms", PrintsNotFound("alarms", "empty"), FALSE, FALSE)
              /\ CleanStepEnd("alarms", "none")
              /\ UNCHANGED alarms
         ELSE /\ alarms' = (r # "ok")
              /\ CleanNote("alarms", FALSE, r # "ok", r = "ok")
              /\ CleanStepEnd("alarms", IF r = "ok" THEN "none" ELSE r)
    /\ UNCHANGED <<record, buckets, tables, role, funcs, logs, api,
                   nBuckets, nTables, nApis, runs>>
    /\ UNCHANGED <<infra_details, cleanFn, cleanAllGone, audit>>
    /\ UNCHANGED <<provVars, updVars, bktVars, rtVars, extVars>>

\* delete_api_gateway: get_api's NotFoundException and AccessDeniedException
\* return; delete_api's AccessDeniedException is printed; the rest is raised
\* to the outermost handler.  Stage, route and integration deletions print
\* their errors and go on.
delete_api_gateway ==
    /\ cleanPc = "gateway"
    /\ cleanSteps' = Append(cleanSteps, "gateway")
    /\ \E g \in CheckResp(api # 0 /\ api = infra_details.api_url), r \in CallResp :
         IF g # "ok"
         THEN /\ CleanNote("gateway", PrintsNotFound("gateway", g), g # "NotFound", FALSE)
              /\ CleanStepEnd("gateway",
                              IF g \in {"NotFound", "AccessDenied"} THEN "none" ELSE g)
              /\ UNCHANGED api
         ELSE /\ api' = IF r = "ok" THEN 0 ELSE api
              /\ CleanNote("gateway", FALSE, r # "ok", r = "ok")
              /\ CleanStepEnd("gateway",
                              IF r \in {"ok", "AccessDenied"} THEN "none" ELSE r)
    /\ UNCHANGED <<record, buckets, tables, role, funcs, logs, alarms,
                   nBuckets, nTables, nApis, runs>>
    /\ UNCHANGED <<infra_details, cleanFn, cleanAllGone, audit>>
    /\ UNCHANGED <<provVars, updVars, bktVars, rtVars, extVars>>

\* delete_lambda_functions, one pass of its loop: delete_function, then
\* delete_log_group, each in its own try that handles ClientError (printing
\* unless the code is ResourceNotFoundException); anything else reaches the
\* handler around both (line 187), which skips the log group and goes on
\* with the next function.
delete_lambda_functions ==
    /\ cleanPc = "functions"
    /\ cleanSteps' = IF cleanFn = 1 THEN Append(cleanSteps, "functions") ELSE cleanSteps
    /\ LET f == FuncOrder[cleanFn]
       IN  \E fr \in CheckResp(f \in funcs), lr \in CheckResp(f \in logs) :
             LET logCalled == fr # "exc"
                 e == IF fr = "exc" \/ lr = "exc" THEN "exc" ELSE "none"
                 caught == e = "none" \/ Catches(OuterClause["functions"], e)
                 delF == fr = "ok"
                 delL == logCalled /\ lr = "ok"
             IN  /\ funcs' = IF delF THEN funcs \ {f} ELSE funcs
                 /\ logs' = IF delL THEN logs \ {f} ELSE logs
                 /\ CleanNote("functions",
                              \/ PrintsNotFound("functions", fr)
                              \/ logCalled /\ PrintsNotFound("functions", lr),
                              \/ fr \in {"AccessDenied", "exc"}
                              \/ logCalled /\ lr \in {"AccessDenied", "exc"},
                              delF \/ delL)
                 /\ IF caught /\ cleanFn < Len(FuncOrder)
                    THEN cleanFn' = cleanFn + 1 /\ UNCHANGED <<cleanPc, cleanReturned>>
                    ELSE cleanFn' = 1 /\ CleanStepEnd("functions", e)
    /\ UNCHANGED <<record, buckets, tables, role, api, alarms, nBuckets, nTables, nApis, runs>>
    /\ UNCHANGED <<infra_details, cleanAllGone, audit>>
    /\ UNCHANGED <<provVars, updVars, bktVars, rtVars, extVars>>

\* delete_iam_role: NoSuchEntity returns; policies are detached and deleted
\* (errors printed), then delete_role; every other error reaches the handler.
delete_iam_role ==
    /\ cleanPc = "role"
    /\ cleanSteps' = Append(cleanSteps, "role")
    /\ \E g \in CheckResp(role), r \in CallResp :
         IF g # "ok"
         THEN /\ CleanNote("role", PrintsNotFound("role", g), g # "NotFound", FALSE)
              /\ CleanStepEnd("role", IF g = "NotFound" THEN "none" ELSE g)
              /\ UNCHANGED role
         ELSE /\ role' = (r # "ok")
              /\ CleanNote("role", FALSE, r # "ok", r = "ok")
              /\ CleanStepEnd("role", IF r = "ok" THEN "none" ELSE r)
    /\ UNCHANGED <<record, buckets, tables, funcs, logs, api, alarms,
                   nBuckets, nTables, nApis, runs>>
    /\ UNCHANGED <<infra_details, cleanFn, cleanAllGone, audit>>
    /\ UNCHANGED <<provVars, updVars, bktVars, rtVars, extVars>>

\* delete_dynamodb_table: ResourceNotFoundException returns; delete_table,
\* then the table_not_exists waiter, which may raise after the delete.
delete_dynamodb_table ==
    /\ cleanPc = "table"
    /\ cleanSteps' = Append(cleanSteps, "table")
    /\ \E g \in CheckResp(infra_details.table_name \in tables),
          r \in {"ok", "AccessDenied", "exc", "waiter_error"} :
         IF g # "ok"
         THEN /\ CleanNote("table", PrintsNotFound("table", g), g # "NotFound", FALSE)
              /\ CleanStepEnd("table", IF g = "NotFound" THEN "none" ELSE g)
              /\ UNCHANGED tables
         ELSE LET deleted == r \in {"ok", "waiter_error"}
              IN  /\ tables' = IF deleted THEN tables \ {infra_details.table_name}
                               ELSE tables
                  /\ CleanNote("table", FALSE, r # "ok", deleted)
                  /\ CleanStepEnd("table",
                                  IF r = "ok" THEN "none"
                                  ELSE IF r = "waiter_error" THEN "exc" ELSE r)
    /\ UNCHANGED <<record, buckets, role, funcs, logs, api, alarms,
                   nBuckets, nTables, nApis, runs>>
    /\ UNCHANGED <<infra_details, cleanFn, cleanAllGone, audit>>
    /\ UNCHANGED <<provVars, updVars, bktVars, rtVars, extVars>>

\* delete_s3_bucket as one step of cleanup: a 404 from head_bucket returns;
\* the contents are deleted (errors printed, see SpecBucket), then
\* delete_bucket, which AWS refuses for a bucket that is not empty.
delete_s3_bucket ==
    /\ cleanPc = "bucket"
    /\ cleanSteps' = Append(cleanSteps, "bucket")
    /\ \E g \in CheckResp(infra_details.bucket_name \in buckets), r \in CallResp :
         IF g # "ok"
         THEN /\ CleanNote("bucket", PrintsNotFound("bucket", g), g # "NotFound", FALSE)
              /\ CleanStepEnd("bucket", IF g = "NotFound" THEN "none" ELSE g)
              /\ UNCHANGED buckets
         ELSE /\ buckets' = IF r = "ok" THEN buckets \ {infra_details.bucket_name}
                            ELSE buckets
              /\ CleanNote("bucket", FALSE, r # "ok", r = "ok")
              /\ CleanStepEnd("bucket", IF r = "ok" THEN "none" ELSE r)
    /\ UNCHANGED <<record, tables, role, funcs, logs, api, alarms,
                   nBuckets, nTables, nApis, runs>>
    /\ UNCHANGED <<infra_details, cleanFn, cleanAllGone, audit>>
    /\ UNCHANGED <<provVars, updVars, bktVars, rtVars, extVars>>

\* os.remove of the record file: any exception is printed (FileNotFoundError
\* passed over); either way cleanup() goes on to its last print.
remove_record_file ==
    /\ cleanPc = "remove"
    /\ \E r \in {"ok", "OSError"} :
         record' = IF r = "ok" THEN NoRecord ELSE record
    /\ cleanPc' = "done"
    /\ UNCHANGED <<buckets, tables, role, funcs, logs, api, alarms,
                   nBuckets, nTables, nApis, runs, everFailed>>
    /\ UNCHANGED <<infra_details, cleanSteps, cleanFn, cleanReturned, notFoundLogged,
                   cleanFault, cleanChanged, cleanAllGone, audit>>
    /\ UNCHANGED <<provVars, updVars, bktVars, rtVars, extVars>>

\* The process ends.
CleanIdle ==
    /\ cleanPc = "idle" /\ infra_details = NoRecord
    /\ cleanSteps = <<>> /\ cleanFn = 1 /\ cleanReturned = 0 /\ notFoundLogged = {}
    /\ cleanFault = FALSE /\ cleanChanged = FALSE /\ cleanAllGone = FALSE

CleanReturn ==
    /\ cleanPc \in {"done", "raised"}
    /\ cleanPc' = "idle" /\ infra_details' = NoRecord
    /\ cleanSteps' = <<>> /\ cleanFn' = 1 /\ cleanReturned' = 0 /\ notFoundLogged' = {}
    /\ cleanFault' = FALSE /\ cleanChanged' = FALSE /\ cleanAllGone' = FALSE
    /\ UNCHANGED audit
    /\ UNCHANGED <<lifeVars, failVars, provVars, updVars, bktVars, rtVars, extVars>>

(***************************************************************************)
(* Idle values of the other groups (filled by their specifications).       *)
(***************************************************************************)
UpdIdle ==
    /\ uPc = "idle" /\ uAttempt = 0 /\ uPhase = "none"
    /\ uCodeIssued = FALSE /\ uCfgIssued = FALSE /\ uReadySeen = {}
    /\ uConflicts = 0 /\ uSlept = <<>> /\ uWhy = "none"
    /\ wAttempt = 0 /\ wPolls = 0 /\ wSlept = <<>> /\ wLast = <<"none", "">>
    /\ wSawReady = FALSE /\ wResult = "none"

BktIdle ==
    /\ bPc = "idle" /\ bExists = FALSE /\ bKind = <<>> /\ bObjs = {}
    /\ bPage = 0 /\ bSubmitted = {} /\ bWarned = FALSE /\ bRefused = FALSE
    /\ bIssued = FALSE /\ bLeft = {}

RtIdle ==
    /\ rPc = "idle" /\ rIdx = 0 /\ rFns = {} /\ rRoutes = {} /\ rIntegrations = {}
    /\ rPerms = {} /\ rNextId = 0 /\ rPermSeen = {} /\ rHadRoute = FALSE
    /\ rWhy = "none"

\* The two provisioning runs of SpecRace; 0 stands for the earlier run whose
\* record the file holds at the start.
RaceRuns == {1, 2}

RaceIdle ==
    /\ rcPc = [p \in RaceRuns |-> "idle"] /\ rcExists = FALSE /\ rcFile = <<>>
    /\ rcLen = [p \in {0} \cup RaceRuns |-> 0]
    /\ rcView = [p \in RaceRuns |-> <<>>] /\ rcSaw = [p \in RaceRuns |-> <<>>]
    /\ rcLast = 0

\* The two breakdowns before any server is counted.
NoSummary ==
    [byStrategy |-> [s \in {"Rehost", "Replatform", "Refactor"} |-> 0],
     byComplexity |-> [l \in {"Low", "Medium", "High"} |-> 0]]

RmIdle ==
    /\ rmPc = "idle" /\ rmServers = <<>> /\ rmStartArg = -1 /\ rmNow = <<0, 0>>
    /\ rmSorted = <<>> /\ rmIdx = 0 /\ rmCurrent = <<0, 0>> /\ rmTimeline = <<>>
    /\ rmTotal = 0 /\ rmRemote = <<>> /\ rmSummary = NoSummary

DiscIdle ==
    /\ dPc = "idle" /\ dServerId = FALSE /\ dFound = 0 /\ dIdx = 0 /\ dStep = 0
    /\ dParts = <<>> /\ dCollected = <<>> /\ dResult = "none" /\ dFailed = {}

\* No request yet.
NoRequest == [op |-> "none", body |-> "none", serverId |-> 0]

WebIdle ==
    /\ webHasFile = FALSE /\ webFile = <<>> /\ webReq = NoRequest
    /\ webStatus = 0 /\ webResults = 0 /\ webStored = "none"

\* No server_specs yet.
NoSpecs == [cores |-> 0, cpuUtil |-> 0, memTotal |-> 0, memUsed |-> 0, storageTotal |-> 0,
            dependencies |-> 0]

CostIdle ==
    /\ cPc = "idle" /\ cSpecs = NoSpecs /\ cUseFreeTier = TRUE /\ cInstance = "none"
    /\ cHours = 0 /\ cEbsType = "none" /\ cS3Storage = 0 /\ cS3Put = 0
    /\ cCpuPoints = 0 /\ cScore = 0

\* No dependency record yet.
NoDependency == [frequency |-> 0, averageLatency |-> 0, averageThroughput |-> 0, errorRate |-> 0]

StrengthIdle == sPc = "idle" /\ sDependency = NoDependency /\ sStrength = 0

IndirectIdle ==
    /\ gPc = "idle" /\ gMap = <<>> /\ gVisited = {} /\ gStack = <<>> /\ gIndirect = <<>>

DepIdle == StrengthIdle /\ IndirectIdle

ExtIdle == RaceIdle /\ RmIdle /\ DiscIdle /\ WebIdle /\ CostIdle /\ DepIdle

(***************************************************************************)
(* Spec: provisioning and cleanup runs over one account.                   *)
(***************************************************************************)
\* A new account and no record file.
LifeInit ==
    /\ record = NoRecord
    /\ buckets = {} /\ tables = {} /\ role = FALSE /\ funcs = {} /\ logs = {}
    /\ api = 0 /\ alarms = FALSE
    /\ nBuckets = 0 /\ nTables = 0 /\ nApis = 0 /\ runs = 0
    /\ everFailed = FALSE

Init == LifeInit /\ ProvIdle /\ CleanIdle /\ audit = FALSE /\ UpdIdle /\ BktIdle /\ RtIdle /\ ExtIdle

Next ==
    \/ ProvStart
    \/ create_s3_bucket
    \/ create_dynamodb_table
    \/ create_lambda_role
    \/ create_lambda_functions
    \/ create_api_gateway
    \/ setup_cloudwatch_monitoring
    \/ save_infrastructure_details
    \/ ProvReturn
    \/ CleanStart
    \/ delete_cloudwatch_alarms
    \/ delete_api_gateway
    \/ delete_lambda_functions
    \/ delete_iam_role
    \/ delete_dynamodb_table
    \/ delete_s3_bucket
    \/ remove_record_file
    \/ CleanReturn

Spec == Init /\ [][Next]_vars

\* None of the resources create_infrastructure creates exists.
NoResources ==
    /\ buckets = {} /\ tables = {} /\ ~role /\ funcs = {} /\ api = 0 /\ ~alarms

\* C1 (as stated): a provisioning run that starts with a record whose bucket
\* and table exist, and with the role existing, issues no create call for the
\* bucket, the table or the role, and a run that completes leaves the record's
\* bucket and table names as they were.  Refuted: a ClientError of any code
\* from head_bucket, describe_table or get_role is taken for absence.
C1_ReuseNeverCreates ==
    provPremise =>
        /\ provCreates = {}
        /\ provPc = "done" =>
              /\ record.bucket_name = existing.bucket_name
              /\ record.table_name = existing.table_name

\* C2: the record file is written only after the bucket, table, role,
\* functions, gateway and alarms steps have all returned normally, in that
\* order; while a run is under way, and after it failed at any step, the
\* record file is what it was before the run; a run that completes leaves
\* the record holding the names the run returned.
C2_RecordWrittenLast ==
    LET order == <<"bucket", "table", "role", "functions", "gateway", "alarms", "save">>
    IN  /\ \E n \in 0..Len(order) : provSteps = SubSeq(order, 1, n)
        /\ provPc \notin {"idle", "done"} => record = existing
        /\ provPc = "done" => provSteps = order /\ record = infra_details_of_run

\* A run over an existing record failed at the functions step (an update that
\* timed out, say) after bucket, table and role returned.
C2_FailedRunKeepsRecord ==
    /\ provPc = "failed" /\ existing.present
    /\ provSteps = <<"bucket", "table", "role">>

CleanWorldInit ==
    /\ record \in {NoRecord, MkRecord(1, 1, 1)}
    /\ buckets \in SUBSET {1, 2} /\ tables \in SUBSET {1, 2}
    /\ 2 \in buckets <=> 2 \in tables
    /\ role \in BOOLEAN /\ funcs \in SUBSET Funcs /\ logs \in SUBSET Funcs
    /\ api \in {0, 1, 2} /\ alarms \in BOOLEAN
    /\ nBuckets = MaxNames /\ nTables = MaxNames /\ nApis = MaxNames
    /\ runs = MaxRuns - 1
    /\ everFailed = FALSE

InitClean == CleanWorldInit /\ ProvIdle /\ CleanIdle /\ audit = TRUE
             /\ UpdIdle /\ BktIdle /\ RtIdle /\ ExtIdle

NextClean ==
    \/ CleanStart
    \/ delete_cloudwatch_alarms
    \/ delete_api_gateway
    \/ delete_lambda_functions
    \/ delete_iam_role
    \/ delete_dynamodb_table
    \/ delete_s3_bucket
    \/ remove_record_file
    \/ CleanReturn

SpecClean == InitClean /\ [][NextClean]_vars

\* C3: the deletion steps are entered in the order alarms, gateway,
\* functions, role, table, bucket, none before the previous one has
\* returned, and the record file is removed only after all six have returned.
C3_ReverseOrder ==
    LET order == <<"alarms", "gateway", "functions", "role", "table", "bucket">>
    IN  /\ \E n \in 0..Len(order) : cleanSteps = SubSeq(order, 1, n)
        /\ Len(cleanSteps) - cleanReturned \in {0, 1}
        /\ Len(cleanSteps) > cleanReturned => cleanPc = cleanSteps[Len(cleanSteps)]
        /\ (infra_details.present /\ ~record.present) =>
              cleanSteps = order /\ cleanReturned = Len(order)

\* A run has removed the record file.
C3_RecordRemoved ==
    /\ cleanPc = "done" /\ infra_details.present /\ ~record.present
    /\ cleanReturned = Len(CleanOrder)

\* C4: no error of any deletion call leaves cleanup(): a run over a non-empty
\* record never raises, and it ends having entered and returned from all six
\* deletion steps, whichever of them failed.
C4_BestEffort ==
    /\ cleanPc # "raised"
    /\ (cleanPc \in {"remove", "done"} /\ infra_details.present) =>
          /\ cleanSteps = <<"alarms", "gateway", "functions", "role", "table", "bucket">>
          /\ cleanReturned = Len(cleanSteps)

\* A run ended although the table's deletion failed and the bucket, entered
\* after it, was deleted.
C4_WentOnAfterFailure ==
    /\ cleanPc = "done" /\ cleanFault /\ cleanChanged
    /\ infra_details.table_name \in tables
    /\ infra_details.bucket_name \notin buckets

\* C5 (as stated): a run over a record whose resources were all deleted
\* beforehand, every lookup answering truthfully, changes nothing and prints
\* "not found" for each of the six kinds.  Refuted: an absent function or log
\* group is passed over without a message.
C5_NotFoundForEach ==
    (cleanPc = "done" /\ cleanAllGone /\ ~cleanFault) =>
        /\ ~cleanChanged
        /\ notFoundLogged = {"alarms", "gateway", "functions", "role", "table", "bucket"}

\* C5 (amended): such a run never raises and removes nothing; when every
\* lookup answers truthfully it prints "not found" for the gateway, the role,
\* the table and the bucket, "No CloudWatch alarms found to delete" for the
\* alarms, and nothing for the functions and their log groups.
C5_NotFoundExceptFunctions ==
    cleanAllGone =>
        /\ cleanPc # "raised"
        /\ ~cleanChanged
        /\ (cleanPc = "done" /\ ~cleanFault) =>
              notFoundLogged = {"alarms", "gateway", "role", "table", "bucket"}

\* Such a run has ended, in an account that still holds another bucket.
C5_AllGoneRunDone ==
    /\ cleanPc = "done" /\ cleanAllGone /\ ~cleanFault
    /\ buckets # {}

(***************************************************************************)
(* SpecUpdate: one call of update_lambda_function, with the calls of       *)
(* wait_for_lambda_update it makes.  Each get_function and update call is  *)
(* answered by AWS in any of the ways it can be.                           *)
(***************************************************************************)
\* Defaults of wait_for_lambda_update(function_name, max_retries, base_delay).
wait_max_retries == 10
wait_base_delay == 10
\* Locals of update_lambda_function.
max_retries == 5
base_delay == 10

\* Configuration.State and Configuration.LastUpdateStatus of a function.
FnStates == {"Pending", "Active", "Failed"}
UpdateStatuses == {"Successful", "InProgress", "Failed"}

\* Answers to get_function: the two fields, a ClientError with its code, or
\* an exception that is not a ClientError.
GetFunctionResp ==
    (FnStates \X UpdateStatuses)
    \cup ({"ClientError"} \X {"ResourceNotFoundException", "ResourceConflictException",
                               "AccessDeniedException"})
    \cup {<<"Exception", "">>}

\* Answers to update_function_code and update_function_configuration.
UpdateResp == {"ok", "ResourceConflictException", "ClientError", "Exception"}

\* A faulty test, for comparison: the update status is not looked at.
IsReadyStateOnly(resp) == resp[1] = "Active"

\* The readiness test of wait_for_lambda_update (line 50).
IsReady(resp) == resp[1] = "Active" /\ resp[2] # "InProgress"

\* A faulty test, for comparison: a conflict is retried on the last attempt too.
RetryOnConflictAlways(attempt) == TRUE

\* The retry test of update_lambda_function's handler (line 114).
RetryOnConflict(attempt) == attempt < max_retries - 1

\* update_lambda_function calls wait_for_lambda_update(function_name).
WaitBegin(phase) ==
    /\ uPc' = "waiting" /\ uPhase' = phase
    /\ wAttempt' = 0 /\ wPolls' = 0 /\ wSlept' = <<>> /\ wLast' = <<"none", "">>
    /\ wSawReady' = FALSE /\ wResult' = "none"

\* An attempt of update_lambda_function's loop starts.
AttemptBegin(attempt) ==
    /\ uAttempt' = attempt
    /\ uCodeIssued' = FALSE /\ uCfgIssued' = FALSE /\ uReadySeen' = {}
    /\ WaitBegin("ready")

\* The function is entered.
update_lambda_function ==
    /\ uPc = "idle"
    /\ AttemptBegin(0)
    /\ UNCHANGED <<uConflicts, uSlept, uWhy>>
    /\ UNCHANGED <<lifeVars, failVars, provVars, cleanVars, bktVars, rtVars, extVars>>

\* One pass of wait_for_lambda_update's loop: get_function, then return,
\* raise, or sleep base_delay * 2^attempt and go on; the loop's exhaustion
\* returns False.
wait_for_lambda_update ==
    /\ uPc = "waiting" /\ wResult = "none" /\ wAttempt < wait_max_retries
    /\ \E resp \in GetFunctionResp :
         LET sleepAndGoOn ==
                 /\ wSlept' = Append(wSlept, wait_base_delay * 2^wAttempt)
                 /\ wAttempt' = wAttempt + 1
                 /\ wResult' = IF wAttempt + 1 < wait_max_retries THEN "none" ELSE "False"
             end(result) ==
                 /\ wResult' = result
                 /\ UNCHANGED <<wSlept, wAttempt>>
         IN  /\ wPolls' = wPolls + 1
             /\ wLast' = resp
             /\ wSawReady' = (wSawReady \/ (resp[1] = "Active" /\ resp[2] # "InProgress"))
             /\ IF resp[1] \in FnStates
                THEN IF IsReady(resp) THEN end("True") ELSE sleepAndGoOn
                ELSE IF resp[1] = "ClientError"
                THEN IF resp[2] = "ResourceNotFoundException" THEN end("False")
                     ELSE IF resp[2] = "ResourceConflictException" THEN sleepAndGoOn
                     ELSE end("ClientError")
                ELSE end("Exception")
    /\ UNCHANGED <<uPc, uAttempt, uPhase, uCodeIssued, uCfgIssued, uReadySeen,
                   uConflicts, uSlept, uWhy>>
    /\ UNCHANGED <<lifeVars, failVars, provVars, cleanVars, bktVars, rtVars, extVars>>

\* An error `e` inside update_lambda_function's try: a conflict is retried
\* after a sleep while RetryOnConflict holds, everything else is raised; a
\* loop that ran out would return False (line 121).
UpdateHandle(e) ==
    /\ uConflicts' = IF e = "ResourceConflictException" THEN uConflicts + 1 ELSE uConflicts
    /\ IF e = "ResourceConflictException" /\ RetryOnConflict(uAttempt)
       THEN /\ uSlept' = Append(uSlept, base_delay * 2^uAttempt)
            /\ IF uAttempt + 1 < max_retries
               THEN AttemptBegin(uAttempt + 1) /\ UNCHANGED uWhy
               ELSE /\ uPc' = "returned" /\ uWhy' = "False"
                    /\ UNCHANGED <<uAttempt, uPhase, uCodeIssued, uCfgIssued, uReadySeen,
                                   wAttempt, wPolls, wSlept, wLast, wSawReady, wResult>>
       ELSE /\ uPc' = "raised" /\ uWhy' = e
            /\ UNCHANGED <<uSlept, uAttempt, uPhase, uCodeIssued, uCfgIssued, uReadySeen,
                           wAttempt, wPolls, wSlept, wLast, wSawReady, wResult>>

\* wait_for_lambda_update has returned or raised: False raises an Exception,
\* True leads to the next call, or to `return True` after the third wait.
AfterWait ==
    /\ uPc = "waiting" /\ wResult # "none"
    /\ IF wResult = "True"
       THEN /\ uReadySeen' = uReadySeen \cup {uPhase}
            /\ uPc' = CASE uPhase = "ready" -> "update_code"
                        [] uPhase = "code" -> "update_config"
                        [] OTHER -> "returned"
            /\ uWhy' = IF uPhase = "config" THEN "True" ELSE uWhy
            /\ UNCHANGED <<uAttempt, uPhase, uCodeIssued, uCfgIssued, uConflicts, uSlept,
                           wAttempt, wPolls, wSlept, wLast, wSawReady, wResult>>
       ELSE /\ UpdateHandle(IF wResult = "False" THEN "Exception" ELSE wResult)
    /\ UNCHANGED <<lifeVars, failVars, provVars, cleanVars, bktVars, rtVars, extVars>>

update_function_code ==
    /\ uPc = "update_code"
    /\ \E r \in UpdateResp :
         IF r = "ok"
         THEN /\ uCodeIssued' = TRUE
              /\ WaitBegin("code")
              /\ UNCHANGED <<uAttempt, uCfgIssued, uReadySeen, uConflicts, uSlept, uWhy>>
         ELSE UpdateHandle(r)
    /\ UNCHANGED <<lifeVars, failVars, provVars, cleanVars, bktVars, rtVars, extVars>>

update_function_configuration ==
    /\ uPc = "update_config"
    /\ \E r \in UpdateResp :
         IF r = "ok"
         THEN /\ uCfgIssued' = TRUE
              /\ WaitBegin("config")
              /\ UNCHANGED <<uAttempt, uCodeIssued, uReadySeen, uConflicts, uSlept, uWhy>>
         ELSE UpdateHandle(r)
    /\ UNCHANGED <<lifeVars, failVars, provVars, cleanVars, bktVars, rtVars, extVars>>

InitUpdate ==
    LifeInit /\ ProvIdle /\ CleanIdle /\ audit = FALSE /\ UpdIdle /\ BktIdle /\ RtIdle /\ ExtIdle

NextUpdate ==
    \/ update_lambda_function
    \/ wait_for_lambda_update
    \/ AfterWait
    \/ update_function_code
    \/ update_function_configuration

\* The script is one sequential process: a call that can be made is made, a
\* sleep ends.
SpecUpdate == InitUpdate /\ [][NextUpdate]_vars /\ WF_vars(NextUpdate)

\* C6: every call of wait_for_lambda_update ends; it makes at most 10 polls,
\* sleeps 10 * 2^attempt after the attempt-th poll that did not end it, has
\* returned True exactly when a poll saw State Active with a LastUpdateStatus
\* other than InProgress, and has returned False exactly when the last poll
\* answered "not found" or all 10 polls were used without a poll seeing that.
C6_WaitBoundedBackoff ==
    /\ [](/\ wPolls <= 10
          /\ wResult = "none" => wPolls < 10 /\ Len(wSlept) = wPolls
          /\ Len(wSlept) <= wPolls
          /\ \A i \in 1..Len(wSlept) : wSlept[i] = 10 * 2^(i - 1)
          /\ wResult = "True" <=> wSawReady
          /\ wResult = "False" <=>
               \/ wLast = <<"ClientError", "ResourceNotFoundException">>
               \/ wPolls = 10 /\ Len(wSlept) = 10)
    /\ (uPc = "waiting" /\ wResult = "none") ~> (wResult # "none")

\* A wait used up its ten polls, having slept 10, 20, ..., 5120 seconds.
C6_WaitExhausted ==
    /\ wResult = "False" /\ wPolls = 10
    /\ Len(wSlept) = 10 /\ wSlept[10] = 5120

\* C7: a conflict answer to an update call starts the step again from the
\* first wait, with nothing of the earlier attempt counted; there are at most
\* 5 attempts, each after the first caused by a conflict; a conflict in the
\* 5th is raised to the caller; and True is returned only when, in the same
\* attempt, both update calls were accepted and all three waits returned True.
C7_RetryWholeStep ==
    /\ uAttempt <= 4 /\ uConflicts <= 5
    /\ uPc \notin {"idle", "raised"} => uConflicts = uAttempt
    /\ Len(uSlept) = uAttempt
    /\ uCodeIssued => "ready" \in uReadySeen
    /\ uCfgIssued => uCodeIssued /\ "code" \in uReadySeen
    /\ "config" \in uReadySeen => uCfgIssued
    /\ (uPc = "waiting" /\ uPhase = "ready") => ~uCodeIssued /\ ~uCfgIssued
    /\ uConflicts = 5 => uPc = "raised" /\ uWhy = "ResourceConflictException"
    /\ uPc = "returned" =>
         /\ uWhy = "True"
         /\ uCodeIssued /\ uCfgIssued /\ uReadySeen = {"ready", "code", "config"}

\* The fifth attempt got as far as the configuration update, which answered
\* with the fifth conflict.
C7_FifthConflictRaised ==
    /\ uPc = "raised" /\ uConflicts = 5 /\ uCodeIssued /\ ~uCfgIssued

(***************************************************************************)
(* SpecBucket: one call of delete_s3_bucket on a versioned bucket whose    *)
(* listing (list_object_versions) comes in pages.                          *)
(***************************************************************************)
\* The most entries (versions and delete markers) the bucket holds.
MaxObjs == 4
\* The most entries list_object_versions returns in one page.
PageSize == 2

\* The entries of page k of the listing.
PageEntries(k) == {i \in DOMAIN bKind : (k - 1) * PageSize < i /\ i <= k * PageSize}

\* The pages paginate() yields: at least one, also for an empty bucket.
NumPages ==
    IF Len(bKind) = 0 THEN 1 ELSE (Len(bKind) + PageSize - 1) \div PageSize

\* page['Versions'] and page['DeleteMarkers'].
Versions(k) == {i \in PageEntries(k) : bKind[i] = "version"}
DeleteMarkers(k) == {i \in PageEntries(k) : bKind[i] = "marker"}

\* A faulty collection, for comparison: the delete markers are left out.
ObjectsToDeleteVersionsOnly(k) == Versions(k)

\* objects_to_delete after the two loops over a page (lines 292-305).
ObjectsToDelete(k) == Versions(k) \cup DeleteMarkers(k)

\* head_bucket: a 404 prints "not found" and returns, any other error is
\* raised to the outermost handler, which prints it.
head_bucket ==
    /\ bPc = "head"
    /\ \E resp \in CheckResp(bExists) :
         /\ bPc' = IF resp = "ok" THEN "page" ELSE "done"
         /\ bPage' = IF resp = "ok" THEN 1 ELSE bPage
    /\ UNCHANGED <<bExists, bKind, bObjs, bSubmitted, bWarned, bRefused, bIssued, bLeft>>
    /\ UNCHANGED <<lifeVars, failVars, provVars, cleanVars, updVars, rtVars, extVars>>

\* One pass of the loop over the pages: the page is fetched, its versions and
\* delete markers collected and passed to delete_objects, whose response
\* (which may report entries it did not delete) is not looked at.  An
\* exception of either call ends the loop with a warning.
delete_page ==
    /\ bPc = "page"
    /\ \E list \in {"ok", "exc"}, del \in {"ok", "exc"},
          kept \in SUBSET (ObjectsToDelete(bPage) \cap bObjs) :
         LET batch == ObjectsToDelete(bPage)
             last == bPage >= NumPages
         IN  IF list = "exc"
             THEN /\ bWarned' = TRUE /\ bPc' = "delete_bucket"
                  /\ UNCHANGED <<bObjs, bSubmitted, bRefused, bPage>>
             ELSE IF batch = {}
             THEN /\ bPc' = IF last THEN "delete_bucket" ELSE "page"
                  /\ bPage' = bPage + 1
                  /\ UNCHANGED <<bObjs, bSubmitted, bRefused, bWarned>>
             ELSE IF del = "exc"
             THEN /\ bSubmitted' = bSubmitted \cup batch
                  /\ bWarned' = TRUE /\ bPc' = "delete_bucket"
                  /\ UNCHANGED <<bObjs, bRefused, bPage>>
             ELSE /\ bSubmitted' = bSubmitted \cup batch
                  /\ bObjs' = (bObjs \ batch) \cup kept
                  /\ bRefused' = (bRefused \/ kept # {})
                  /\ bPc' = IF last THEN "delete_bucket" ELSE "page"
                  /\ bPage' = bPage + 1
                  /\ UNCHANGED bWarned
    /\ UNCHANGED <<bExists, bKind, bIssued, bLeft>>
    /\ UNCHANGED <<lifeVars, failVars, provVars, cleanVars, updVars, rtVars, extVars>>

\* delete_bucket (line 319), which S3 refuses for a bucket that is not empty;
\* its errors are printed by the outermost handler.
delete_bucket ==
    /\ bPc = "delete_bucket"
    /\ bIssued' = TRUE /\ bLeft' = bObjs
    /\ \E r \in CallResp :
         bExists' = IF r = "ok" /\ bObjs = {} THEN FALSE ELSE bExists
    /\ bPc' = "done"
    /\ UNCHANGED <<bKind, bObjs, bPage, bSubmitted, bWarned, bRefused>>
    /\ UNCHANGED <<lifeVars, failVars, provVars, cleanVars, updVars, rtVars, extVars>>

\* Any bucket: absent, or holding up to MaxObjs versions and delete markers.
BucketInit ==
    /\ bPc = "head" /\ bExists \in BOOLEAN
    /\ \E n \in 0..MaxObjs : bKind \in [1..n -> {"version", "marker"}]
    /\ ~bExists => bKind = <<>>
    /\ bObjs = DOMAIN bKind
    /\ bPage = 0 /\ bSubmitted = {} /\ bWarned = FALSE /\ bRefused = FALSE
    /\ bIssued = FALSE /\ bLeft = {}

InitBucket ==
    LifeInit /\ ProvIdle /\ CleanIdle /\ audit = FALSE /\ UpdIdle /\ BucketInit /\ RtIdle /\ ExtIdle

NextBucket ==
    \/ head_bucket
    \/ delete_page
    \/ delete_bucket

SpecBucket == InitBucket /\ [][NextBucket]_vars

\* C8 (as stated): delete_bucket is never called while a version or a delete
\* marker is still in the bucket.  Refuted: an exception while listing or
\* deleting only prints a warning, and delete_bucket is called all the same.
C8_BucketDeleteOnlyWhenEmpty ==
    bIssued => bLeft = {}

\* C8 (amended): delete_bucket is called only after the loop over the pages
\* has ended.  When neither listing nor deleting raised, every version and
\* every delete marker of every page has by then been passed to a
\* delete_objects call, and none is left unless a delete_objects response
\* reported entries it did not delete.  When listing or deleting raised, the
\* warning is printed and delete_bucket is called all the same, with the
\* entries that are left; once head_bucket has found the bucket,
\* delete_bucket is called in every case.
C8_BucketDeleteAfterContents ==
    /\ bIssued => bPc = "done"
    /\ (bIssued /\ ~bWarned) =>
          /\ bSubmitted = DOMAIN bKind
          /\ bPage = NumPages + 1
          /\ ~bRefused => bLeft = {}
    /\ bWarned => bPc \in {"delete_bucket", "done"}
    /\ (bPc = "done" /\ bPage > 0) => bIssued

\* Two pages of versions and delete markers were deleted, then the bucket.
C8_TwoPagesThenBucket ==
    /\ bIssued /\ ~bWarned /\ ~bExists /\ bLeft = {}
    /\ Len(bKind) > PageSize
    /\ \E i, j \in DOMAIN bKind : bKind[i] = "version" /\ bKind[j] = "marker"

(***************************************************************************)
(* SpecRoutes: one call of update_api_routes on a gateway with any routes. *)
(***************************************************************************)
\* The routes dict, in its order: route name and the function it is for.
RouteOrder == <<[name |-> "analyze", fn |-> "discoveryProcessor"],
                [name |-> "estimate", fn |-> "costEstimator"],
                [name |-> "roadmap", fn |-> "roadmapGenerator"]>>

\* f"POST /{route_name}"
RouteKey(name) == "POST /" \o name

\* f'ApiGateway-{route_name}'
StatementId(name) == "ApiGateway-" \o name

\* A faulty test, for comparison: every route is taken for the one to replace.
RouteMatchesAny(route, name) == TRUE

\* The test of the loop over the listed routes (line 543).
RouteMatches(route, name) == route.key = RouteKey(name)

\* Answers to add_permission: AWS refuses a statement id the policy holds.
PermissionResp(sid) ==
    (IF sid \in rPerms THEN {"ResourceConflictException"} ELSE {"ok"})
    \cup {"AccessDeniedException", "Exception"}

\* The routes dict is built from lambda_functions (lines 531-535): a missing
\* key raises KeyError.
update_api_routes ==
    /\ rPc = "enter"
    /\ IF \A i \in 1..Len(RouteOrder) : RouteOrder[i].fn \in rFns
       THEN rPc' = "route" /\ rIdx' = 1 /\ UNCHANGED rWhy
       ELSE rPc' = "raised" /\ rWhy' = "KeyError" /\ UNCHANGED rIdx
    /\ UNCHANGED <<rFns, rRoutes, rIntegrations, rPerms, rNextId, rPermSeen, rHadRoute>>
    /\ UNCHANGED <<lifeVars, failVars, provVars, cleanVars, updVars, bktVars, extVars>>

\* One pass of the loop over the routes dict: the listed routes that match
\* are deleted (every error of this part is printed and passed over), then
\* create_integration, create_route (refused by AWS when the API holds a
\* route with that key) and add_permission, whose ResourceConflictException
\* alone is passed over.
configure_route ==
    /\ rPc = "route"
    /\ LET name == RouteOrder[rIdx].name
           fn == RouteOrder[rIdx].fn
           raise(why) == rPc' = "raised" /\ rWhy' = why /\ UNCHANGED rIdx
       IN  \E list \in {"ok", "exc"}, del \in {"ok", "exc"},
              ci \in {"ok", "exc"}, cr \in {"ok", "exc"},
              ap \in PermissionResp(StatementId(name)) :
             LET doomed == IF list = "ok" /\ del = "ok"
                           THEN {r \in rRoutes : RouteMatches(r, name)}
                           ELSE {}
                 kept == rRoutes \ doomed
                 integ == [id |-> rNextId + 1, fn |-> fn]
                 route == [id |-> rNextId + 2, key |-> RouteKey(name),
                           target |-> integ.id]
                 taken == \E r \in kept : r.key = RouteKey(name)
             IN  IF ci = "exc"
                 THEN /\ rRoutes' = kept /\ raise("create_integration")
                      /\ UNCHANGED <<rIntegrations, rPerms, rNextId, rPermSeen>>
                 ELSE IF taken \/ cr = "exc"
                 THEN /\ rRoutes' = kept
                      /\ rIntegrations' = rIntegrations \cup {integ}
                      /\ rNextId' = rNextId + 1
                      /\ raise("create_route")
                      /\ UNCHANGED <<rPerms, rPermSeen>>
                 ELSE /\ rRoutes' = kept \cup {route}
                      /\ rIntegrations' = rIntegrations \cup {integ}
                      /\ rNextId' = rNextId + 2
                      /\ rPermSeen' = rPermSeen \cup {ap}
                      /\ rPerms' = IF ap = "ok" THEN rPerms \cup {StatementId(name)}
                                   ELSE rPerms
                      /\ IF ap \in {"ok", "ResourceConflictException"}
                         THEN /\ UNCHANGED rWhy
                              /\ IF rIdx < Len(RouteOrder)
                                 THEN rIdx' = rIdx + 1 /\ UNCHANGED rPc
                                 ELSE rPc' = "returned" /\ UNCHANGED rIdx
                         ELSE raise("add_permission")
    /\ UNCHANGED <<rFns, rHadRoute>>
    /\ UNCHANGED <<lifeVars, failVars, provVars, cleanVars, updVars, bktVars, extVars>>

\* How many more provisioning runs follow one that returned.
MaxRepeats == 1

\* A later provisioning run: create_api_gateway finds the API by its name and
\* calls update_api_routes on it, with the functions of this run.
repeat_create_api_gateway ==
    /\ rPc = "returned"
    /\ rNextId <= 5 + 2 * Len(RouteOrder) * MaxRepeats
    /\ rPc' = "enter"
    /\ UNCHANGED <<rIdx, rFns, rRoutes, rIntegrations, rPerms, rNextId, rPermSeen,
                   rHadRoute, rWhy>>
    /\ UNCHANGED <<lifeVars, failVars, provVars, cleanVars, updVars, bktVars, extVars>>

\* A gateway just created, with nothing in it, or one with an integration
\* bound to discoveryProcessor and a route, or none, targeting it for each of
\* the three keys and for a key of its own; any of the three statement ids
\* granted already; any functions configured.
RoutesInit ==
    /\ rPc = "enter" /\ rIdx = 0
    /\ rFns \in {Funcs, Funcs \ {"roadmapGenerator"}}
    /\ rIntegrations \in {{}, {[id |-> 1, fn |-> "discoveryProcessor"]}}
    /\ \E keys \in SUBSET {1, 2, 3, 4} :
         /\ rIntegrations = {} => keys = {}
         /\ rRoutes = {[id |-> 1 + i,
                        key |-> IF i <= Len(RouteOrder) THEN RouteKey(RouteOrder[i].name)
                                ELSE "GET /health",
                        target |-> 1] : i \in keys}
         /\ rHadRoute = (keys \cap (1..Len(RouteOrder)) # {})
    /\ rPerms \in SUBSET {StatementId(RouteOrder[i].name) : i \in 1..Len(RouteOrder)}
    /\ rNextId = 5
    /\ rPermSeen = {} /\ rWhy = "none"

InitRoutes ==
    LifeInit /\ ProvIdle /\ CleanIdle /\ audit = FALSE /\ UpdIdle /\ BktIdle /\ RoutesInit /\ ExtIdle

NextRoutes ==
    \/ update_api_routes
    \/ configure_route
    \/ repeat_create_api_gateway

SpecRoutes == InitRoutes /\ [][NextRoutes]_vars

\* C9: when update_api_routes has returned, the gateway holds exactly one
\* route for each of POST /analyze, POST /estimate and POST /roadmap, and that
\* route targets an integration bound to discoveryProcessor, costEstimator
\* and roadmapGenerator respectively; the call has raised at add_permission
\* exactly when an answer to it was an error other than a conflict.
C9_OneRoutePerKey ==
    LET wanted == {<<"POST /analyze", "discoveryProcessor">>,
                   <<"POST /estimate", "costEstimator">>,
                   <<"POST /roadmap", "roadmapGenerator">>}
    IN  /\ rPc = "returned" =>
              \A w \in wanted :
                  /\ Cardinality({r \in rRoutes : r.key = w[1]}) = 1
                  /\ \A r \in rRoutes : r.key = w[1] =>
                        /\ \E g \in rIntegrations : g.id = r.target
                        /\ \A g \in rIntegrations : g.id = r.target => g.fn = w[2]
        /\ rWhy = "add_permission" <=>
              rPermSeen \cap {"AccessDeniedException", "Exception"} # {}
        /\ rWhy = "add_permission" => rPc = "raised"

\* The call returned on a gateway that held routes with these keys, having
\* met a permission that was granted before.
C9_ReturnedOverOldRoutes ==
    /\ rPc = "returned" /\ rHadRoute
    /\ "ResourceConflictException" \in rPermSeen

\* C30: on a gateway that held nothing before the first run, after any number
\* of provisioning runs that returned the API holds three routes and as many
\* integrations as routes: no integration is left without a route.
C30_IntegrationsMatchRoutes ==
    (rPc = "returned" /\ \A g \in rIntegrations : g.id # 1)
      => /\ Cardinality(rRoutes) = Len(RouteOrder)
         /\ Cardinality(rIntegrations) = Cardinality(rRoutes)
         /\ \A g \in rIntegrations : \E r \in rRoutes : r.target = g.id

(***************************************************************************)
(* SpecRace: two provisioning runs in one working directory.  Each run     *)
(* reads infrastructure_details.json in its constructor and, after its     *)
(* last step, opens the file for writing (which empties it) and writes the *)
(* text of its own record at the start of the file when the file object is *)
(* closed.  Nothing orders the two runs' file operations.                  *)
(***************************************************************************)
\* Pieces of text a record can take: the records of two runs need not be of
\* one length (region, ApiId, created_at without microseconds).
MaxPieces == 2

\* All the groups of the other specifications at their idle values.
CoreIdle ==
    LifeInit /\ ProvIdle /\ CleanIdle /\ audit = FALSE /\ UpdIdle /\ BktIdle /\ RtIdle

\* json.dump(infra_details, f, indent=2) of run p, piece by piece.
RaceText(p) == [i \in 1..rcLen[p] |-> <<p, i>>]

\* json.load succeeds on a file that holds exactly one run's text; on an
\* empty file and on text followed by the rest of another text it raises
\* JSONDecodeError.
RaceParses(file) == \E q \in {0} \cup RaceRuns : rcLen[q] > 0 /\ file = RaceText(q)

\* The file after write() of text at offset 0 of a descriptor opened with 'w':
\* the bytes beyond the text stay.
RaceWriteAt0(file, text) == text \o SubSeq(file, Len(text) + 1, Len(file))

\* InfrastructureManager.__init__: load_existing_infrastructure.
\* FileNotFoundError gives {}; JSONDecodeError is not caught.
RaceLoad(p) ==
    /\ rcPc[p] = "idle"
    /\ rcSaw' = [rcSaw EXCEPT ![p] = rcFile]
    /\ IF ~rcExists
         THEN /\ rcPc' = [rcPc EXCEPT ![p] = "running"]
              /\ rcView' = [rcView EXCEPT ![p] = <<>>]
         ELSE IF RaceParses(rcFile)
         THEN /\ rcPc' = [rcPc EXCEPT ![p] = "running"]
              /\ rcView' = [rcView EXCEPT ![p] = rcFile]
         ELSE /\ rcPc' = [rcPc EXCEPT ![p] = "raised"]
              /\ UNCHANGED rcView
    /\ UNCHANGED <<rcExists, rcFile, rcLen, rcLast>>
    /\ UNCHANGED <<coreVars, depVars, rmVars, discVars, webVars, costVars>>

\* create_infrastructure: one of the steps before the save raises.
RaceStepRaises(p) ==
    /\ rcPc[p] = "running"
    /\ rcPc' = [rcPc EXCEPT ![p] = "raised"]
    /\ UNCHANGED <<rcExists, rcFile, rcLen, rcView, rcSaw, rcLast>>
    /\ UNCHANGED <<coreVars, depVars, rmVars, discVars, webVars, costVars>>

\* create_infrastructure: infra_details is built and open(..., 'w') creates
\* or empties the file.
RaceOpen(p) ==
    /\ rcPc[p] = "running"
    /\ \E n \in 1..MaxPieces : rcLen' = [rcLen EXCEPT ![p] = n]
    /\ rcPc' = [rcPc EXCEPT ![p] = "open"]
    /\ rcExists' = TRUE
    /\ rcFile' = <<>>
    /\ UNCHANGED <<rcView, rcSaw, rcLast>>
    /\ UNCHANGED <<coreVars, depVars, rmVars, discVars, webVars, costVars>>

\* create_infrastructure: json.dump fills the file object's buffer and the
\* end of the with block writes it out.
RaceDump(p) ==
    /\ rcPc[p] = "open"
    /\ rcFile' = RaceWriteAt0(rcFile, RaceText(p))
    /\ rcLast' = p
    /\ rcPc' = [rcPc EXCEPT ![p] = "done"]
    /\ UNCHANGED <<rcExists, rcLen, rcView, rcSaw>>
    /\ UNCHANGED <<coreVars, depVars, rmVars, discVars, webVars, costVars>>

\* The file is missing, or holds the record of an earlier run.
RaceInit ==
    /\ rcPc = [p \in RaceRuns |-> "idle"]
    /\ rcExists \in BOOLEAN
    /\ \E n \in 1..MaxPieces :
          /\ rcLen = [p \in {0} \cup RaceRuns |-> IF p = 0 /\ rcExists THEN n ELSE 0]
          /\ rcFile = IF rcExists THEN [i \in 1..n |-> <<0, i>>] ELSE <<>>
    /\ rcView = [p \in RaceRuns |-> <<>>] /\ rcSaw = [p \in RaceRuns |-> <<>>]
    /\ rcLast = 0

InitRace == CoreIdle /\ DepIdle /\ RaceInit /\ RmIdle /\ DiscIdle /\ WebIdle /\ CostIdle

NextRace ==
    \/ \E p \in RaceRuns : RaceLoad(p)
    \/ \E p \in RaceRuns : RaceStepRaises(p)
    \/ \E p \in RaceRuns : RaceOpen(p)
    \/ \E p \in RaceRuns : RaceDump(p)

SpecRace == InitRace /\ [][NextRace]_vars

\* C11: when two provisioning runs interleave, the record file after both
\* have finished is in its entirety the record of the run that wrote last,
\* never a mix of the two, and each run's view of the earlier record is the
\* one it read at its start.
C11_LastWriterWins ==
    /\ ((\A p \in RaceRuns : rcPc[p] \in {"done", "raised"}) /\ rcLast # 0)
          => rcFile = RaceText(rcLast)
    /\ \A p \in RaceRuns :
          rcPc[p] \in {"running", "open", "done"} => rcView[p] = rcSaw[p]

(***************************************************************************)
(* SpecRoadmap: one call of EnhancedRoadmapGenerator.generate_migration_-  *)
(* roadmap (src/backend/lambda/roadmapGenerator/index.py).  Dates are day  *)
(* numbers, a datetime is <<day, time of day>>, a '%Y-%m-%d' string is the *)
(* day alone.  A JSON object is given by its keys and the values read.     *)
(***************************************************************************)
\* Servers in one request.
MaxServers == 2
\* The buffer between two servers, timedelta(days=7).
server_buffer_days == 7

strftime(dt) == dt[1]
strptime(text) == <<text, 0>>
PlusDays(dt, n) == <<dt[1] + n, dt[2]>>

\* self.risk_levels[level]['score'].
RiskScore(level) == CASE level = "Low" -> 1 [] level = "Medium" -> 2 [] level = "High" -> 3

\* A faulty adjustment, for comparison: one and a half times rounds up.
AdjustedDurationRoundedUp(duration, level) ==
    CASE level = "Low" -> duration
      [] level = "Medium" -> (duration * 3 + 1) \div 2
      [] level = "High" -> duration * 2

\* int(duration * self.risk_levels[level]['multiplier']): 1.0, 1.5, 2.0.
AdjustedDuration(duration, level) ==
    CASE level = "Low" -> duration
      [] level = "Medium" -> (duration * 3) \div 2
      [] level = "High" -> duration * 2

\* phase_templates: the names and durations of the Rehost phases; the
\* Replatform and Refactor templates are empty lists, any other strategy
\* gets Rehost's.
PhaseTemplate(strategy) ==
    IF strategy \in {"Replatform", "Refactor"} THEN <<>>
    ELSE << [name |-> "Assessment", duration |-> 5],
            [name |-> "Planning", duration |-> 7],
            [name |-> "Preparation", duration |-> 10],
            [name |-> "Migration", duration |-> 5],
            [name |-> "Validation", duration |-> 7],
            [name |-> "Cutover", duration |-> 3] >>

\* calculate_priority_score of a server with no dependencies and no
\* utilization figures: twice the complexity score, 3 more if business critical.
calculate_priority_score(server) ==
    2 * RiskScore(server.level) + (IF server.businessCritical THEN 3 ELSE 0)

\* list.sort(reverse=True, key=score) is stable: insert each server behind
\* the servers of at least its score.
RECURSIVE InsertByScore(_, _)
InsertByScore(sorted, server) ==
    IF sorted = <<>> THEN <<server>>
    ELSE IF calculate_priority_score(Head(sorted)) >= calculate_priority_score(server)
    THEN <<Head(sorted)>> \o InsertByScore(Tail(sorted), server)
    ELSE <<server>> \o sorted

RECURSIVE prioritize_servers(_)
prioritize_servers(servers) ==
    IF servers = <<>> THEN <<>>
    ELSE InsertByScore(prioritize_servers(SubSeq(servers, 1, Len(servers) - 1)),
                       servers[Len(servers)])

\* generate_server_phases: each phase starts the day after the one before ended.
RECURSIVE EnhancePhases(_, _, _)
EnhancePhases(phases, level, current) ==
    IF phases = <<>> THEN <<>>
    ELSE LET adjusted == AdjustedDuration(Head(phases).duration, level)
             end_date == PlusDays(current, adjusted)
         IN <<[name |-> Head(phases).name,
               startDate |-> strftime(current), endDate |-> strftime(end_date),
               duration |-> adjusted]>>
            \o EnhancePhases(Tail(phases), level, PlusDays(end_date, 1))

generate_server_phases(server, start_date) ==
    EnhancePhases(PhaseTemplate(server.strategy), server.level, start_date)

\* calculate_total_duration: the sum of the phases' durations, in days.
RECURSIVE calculate_total_duration(_)
calculate_total_duration(phases) ==
    IF phases = <<>> THEN 0
    ELSE Head(phases).duration + calculate_total_duration(Tail(phases))

\* current_date += calculate_total_duration(server_phases) + timedelta(days=7).
NextServerDate(current, phases) ==
    PlusDays(current, calculate_total_duration(phases) + server_buffer_days)

\* costEstimator lambda_handler: the body is read from event['body'] ('{}' if
\* the key is missing); no serverData in it is a ValueError and a 400.
CostEstimator_lambda_handler(event) ==
    LET body == IF "body" \in event.keys THEN event.body ELSE {}
    IN IF "serverData" \notin body
       THEN [keys |-> {"statusCode", "headers", "body"}, statusCode |-> 400,
             body |-> {"error"}, total |-> 0]
       ELSE [keys |-> {"statusCode", "headers", "body"}, statusCode |-> 200,
             body |-> {"currency", "monthly", "oneTime", "projected", "details",
                       "assumptions"}, total |-> 0]

\* The Payload of get_cost_estimate: json.dumps({'serverData': server}).
CostPayload == [keys |-> {"serverData"}, body |-> {}]

\* What get_cost_estimate returns when the call raised: {'total': 0, 'error': str(e)}.
CostPlaceholder ==
    [keys |-> {"total", "error"}, statusCode |-> 0, body |-> {}, total |-> 0]

\* get_cost_estimate.  The invoke raises (no function of that name, no
\* permission, a timeout; COST_ESTIMATOR_FUNCTION unset), or the function named
\* by COST_ESTIMATOR_FUNCTION answers: the repository's cost estimator with its
\* handler's response, another deployment with an object that has a total.
get_cost_estimate(remote) ==
    CASE remote = "raises" -> CostPlaceholder
      [] remote = "costEstimator" -> CostEstimator_lambda_handler(CostPayload)
      [] remote = "other" -> [keys |-> {"total"}, statusCode |-> 0, body |-> {}, total |-> 2]

\* cost_estimate.get('total', 0).
GetTotal(cost_estimate) == IF "total" \in cost_estimate.keys THEN cost_estimate.total ELSE 0

\* generate_migration_roadmap up to the loop.
generate_migration_roadmap ==
    /\ rmPc = "idle"
    /\ LET start_date == IF rmStartArg <= 0 THEN strftime(rmNow) ELSE rmStartArg
       IN rmCurrent' = strptime(start_date)
    /\ rmSorted' = prioritize_servers(rmServers)
    /\ rmTimeline' = <<>> /\ rmTotal' = 0 /\ rmRemote' = <<>>
    /\ rmIdx' = 1
    /\ rmPc' = "loop"
    /\ UNCHANGED <<rmServers, rmStartArg, rmNow, rmSummary>>
    /\ UNCHANGED <<coreVars, depVars, raceVars, discVars, webVars, costVars>>

\* One pass of the loop over sorted_servers.
roadmap_server ==
    /\ rmPc = "loop" /\ rmIdx <= Len(rmSorted)
    /\ \E remote \in {"raises", "costEstimator", "other"} :
         LET server == rmSorted[rmIdx]
             server_phases == generate_server_phases(server, rmCurrent)
             cost_estimate == get_cost_estimate(remote)
             timeline_entry ==
                 [keys |-> {"server", "phases", "startDate", "endDate", "risks",
                            "mitigationStrategies", "costEstimate", "dependencies",
                            "criticalPath"},
                  id |-> server.serverId,
                  phases |-> server_phases,
                  startDate |-> strftime(rmCurrent),
                  endDate |-> strftime(PlusDays(rmCurrent,
                                                calculate_total_duration(server_phases))),
                  costEstimate |-> cost_estimate]
         IN /\ rmTotal' = rmTotal + GetTotal(cost_estimate)
            /\ rmTimeline' = Append(rmTimeline, timeline_entry)
            /\ rmRemote' = Append(rmRemote, remote)
            /\ rmCurrent' = NextServerDate(rmCurrent, server_phases)
    /\ rmIdx' = rmIdx + 1
    /\ UNCHANGED <<rmPc, rmServers, rmStartArg, rmNow, rmSorted, rmSummary>>
    /\ UNCHANGED <<coreVars, depVars, raceVars, discVars, webVars, costVars>>

\* _count_servers_by_strategy: each entry counts under
\* entry.get('migrationStrategy', {}).get('strategy', 'Rehost').
count_servers_by_strategy(timeline) ==
    LET strategy(entry) == IF "migrationStrategy" \in entry.keys
                           THEN entry.migrationStrategy.strategy ELSE "Rehost"
    IN [s \in {"Rehost", "Replatform", "Refactor"} |->
           Cardinality({i \in 1..Len(timeline) : strategy(timeline[i]) = s})]

\* _count_servers_by_complexity: each entry counts under
\* entry.get('complexity', {}).get('level', 'Medium').
count_servers_by_complexity(timeline) ==
    LET complexity(entry) == IF "complexity" \in entry.keys
                             THEN entry.complexity.level ELSE "Medium"
    IN [l \in {"Low", "Medium", "High"} |->
           Cardinality({i \in 1..Len(timeline) : complexity(timeline[i]) = l})]

\* generate_project_summary: summary['servers'].
generate_project_summary(timeline) ==
    [byStrategy |-> count_servers_by_strategy(timeline),
     byComplexity |-> count_servers_by_complexity(timeline)]

\* The methods of self that the project_plan literal calls, in its order.
PlanUses ==
    <<"generate_project_summary", "generate_risk_management_plan",
      "generate_key_milestones", "generate_recommendations">>

\* Those of them that EnhancedRoadmapGenerator defines.
PlanMethods ==
    {"generate_project_summary", "generate_key_milestones", "generate_recommendations"}

\* The project plan is assembled from the timeline: the summary is computed,
\* then the call of a method the class does not define is an AttributeError
\* that leaves generate_migration_roadmap.
roadmap_return ==
    /\ rmPc = "loop" /\ rmIdx > Len(rmSorted)
    /\ rmSummary' = IF PlanUses[1] \in PlanMethods
                    THEN generate_project_summary(rmTimeline) ELSE rmSummary
    /\ rmPc' = IF \A k \in 1..Len(PlanUses) : PlanUses[k] \in PlanMethods
               THEN "returned" ELSE "raised"
    /\ UNCHANGED <<rmServers, rmStartArg, rmNow, rmSorted, rmIdx, rmCurrent, rmTimeline,
                   rmTotal, rmRemote>>
    /\ UNCHANGED <<coreVars, depVars, raceVars, discVars, webVars, costVars>>

\* The requests: one to MaxServers well-formed servers, numbered in order.
RoadmapServerKinds ==
    [level : {"Low", "Medium", "High"}, strategy : {"Rehost", "Replatform", "Retire"},
     businessCritical : BOOLEAN]

RoadmapInit ==
    /\ rmPc = "idle"
    /\ \E n \in 1..MaxServers : \E kinds \in [1..n -> RoadmapServerKinds] :
          rmServers = [i \in 1..n |->
                         [serverId |-> i, level |-> kinds[i].level,
                          strategy |-> kinds[i].strategy,
                          businessCritical |-> kinds[i].businessCritical]]
    /\ rmStartArg \in {-1, 0, 40}
    /\ rmNow \in {<<20, 0>>, <<20, 1>>}
    /\ rmSorted = <<>> /\ rmIdx = 0 /\ rmCurrent = <<0, 0>> /\ rmTimeline = <<>>
    /\ rmTotal = 0 /\ rmRemote = <<>> /\ rmSummary = NoSummary

InitRoadmap == CoreIdle /\ DepIdle /\ RaceIdle /\ RoadmapInit /\ DiscIdle /\ WebIdle /\ CostIdle

NextRoadmap ==
    \/ generate_migration_roadmap
    \/ roadmap_server
    \/ roadmap_return

SpecRoadmap == InitRoadmap /\ [][NextRoadmap]_vars

\* C12: with two or more servers and no start date from the caller,
\* generate_migration_roadmap gives a roadmap in whose timeline the first
\* entry starts on the current date and every later entry starts exactly 7
\* days after the end date of the entry before it.
C12_ChainedStartDates ==
    (rmPc \in {"returned", "raised"} /\ Len(rmServers) >= 2 /\ rmStartArg \in {-1, 0})
      => /\ rmPc = "returned"
         /\ rmTimeline[1].startDate = rmNow[1]
         /\ \A i \in 2..Len(rmTimeline) :
               rmTimeline[i].startDate = rmTimeline[i - 1].endDate + 7

\* C14: the request the roadmap generator sends is one the cost estimator's
\* handler accepts: the handler answers it with a success response, and what
\* get_cost_estimate hands to the roadmap has the CostEstimate shape (monthly,
\* oneTime, projected) from which the server's cost is read.
C14_CostRequestAccepted ==
    \A i \in 1..Len(rmTimeline) :
        rmRemote[i] = "costEstimator"
          => /\ rmTimeline[i].costEstimate.statusCode = 200
             /\ {"monthly", "oneTime", "projected"} \subseteq rmTimeline[i].costEstimate.keys

\* The totals the roadmap read from the entries whose cost call did not raise.
RECURSIVE TotalOfAnswered(_)
TotalOfAnswered(n) ==
    IF n = 0 THEN 0
    ELSE TotalOfAnswered(n - 1)
         + (IF rmRemote[n] = "raises" THEN 0 ELSE GetTotal(rmTimeline[n].costEstimate))

\* C15: when the remote cost call fails for a server, the roadmap is still
\* returned with a timeline entry for every input server; the failed server's
\* costEstimate is a placeholder with total 0 and an error annotation, and it
\* adds nothing to the total cost.
C15_FailedCostKeepsRoadmap ==
    (rmPc \in {"returned", "raised"} /\ \E i \in 1..Len(rmRemote) : rmRemote[i] = "raises")
      => /\ rmPc = "returned"
         /\ Len(rmTimeline) = Len(rmServers)
         /\ {rmTimeline[i].id : i \in 1..Len(rmTimeline)} = 1..Len(rmServers)
         /\ \A i \in 1..Len(rmTimeline) :
               rmRemote[i] = "raises"
                 => /\ rmTimeline[i].costEstimate.total = 0
                    /\ rmTimeline[i].costEstimate.keys = {"total", "error"}
         /\ rmTotal = TotalOfAnswered(Len(rmTimeline))

\* Twice the complexity multiplier of a level: 1.0, 1.5, 2.0.
TwiceMultiplier(level) ==
    CASE level = "Low" -> 2
      [] level = "Medium" -> 3
      [] level = "High" -> 4

\* The order of the six phases and the layout of their dates: each phase ends
\* its duration after it starts, and starts 1 day after the one before ends.
SixPhasesLaidOut(phases) ==
    /\ [k \in 1..Len(phases) |-> phases[k].name]
         = <<"Assessment", "Planning", "Preparation", "Migration", "Validation", "Cutover">>
    /\ \A k \in 1..Len(phases) :
         /\ phases[k].endDate = phases[k].startDate + phases[k].duration
         /\ k > 1 => phases[k].startDate = phases[k - 1].endDate + 1

\* C24 as stated: a Rehost server's phases are the six phases in order, each
\* with duration equal to its base duration times the complexity multiplier,
\* endDate = startDate + duration, and each later phase starting 1 day after
\* the previous phase's endDate.
C24_DurationIsBaseTimesMultiplier ==
    \A i \in 1..Len(rmTimeline) :
        rmSorted[i].strategy = "Rehost" =>
            LET phases == rmTimeline[i].phases
            IN /\ SixPhasesLaidOut(phases)
               /\ \A k \in 1..Len(phases) :
                    phases[k].duration * 2
                      = PhaseTemplate("Rehost")[k].duration * TwiceMultiplier(rmSorted[i].level)

\* C24 as amended: the same, with each duration equal to its base duration
\* times the complexity multiplier rounded down to a whole number of days.
C24_DurationRoundedDown ==
    \A i \in 1..Len(rmTimeline) :
        rmSorted[i].strategy = "Rehost" =>
            LET phases == rmTimeline[i].phases
            IN /\ SixPhasesLaidOut(phases)
               /\ \A k \in 1..Len(phases) :
                    phases[k].duration
                      = (PhaseTemplate("Rehost")[k].duration
                           * TwiceMultiplier(rmSorted[i].level)) \div 2

\* The phases of a Rehost server of Medium complexity are in the timeline:
\* the assessment, of base duration 5, lasts 7 days.
C24_MediumRehostPhases ==
    \E i \in 1..Len(rmTimeline) :
        /\ rmSorted[i].strategy = "Rehost" /\ rmSorted[i].level = "Medium"
        /\ Len(rmTimeline[i].phases) = 6
        /\ rmTimeline[i].phases[1].duration = 7

\* C25: in the summary, byComplexity[L] is the number of input servers of
\* complexity level L and byStrategy[S] the number of input servers of
\* strategy S; each breakdown sums to the number of servers.
C25_SummaryCountsServers ==
    rmPc \in {"returned", "raised"} =>
        /\ \A l \in {"Low", "Medium", "High"} :
             rmSummary.byComplexity[l]
               = Cardinality({i \in 1..Len(rmServers) : rmServers[i].level = l})
        /\ \A st \in {"Rehost", "Replatform", "Refactor"} :
             rmSummary.byStrategy[st]
               = Cardinality({i \in 1..Len(rmServers) : rmServers[i].strategy = st})
        /\ rmSummary.byComplexity["Low"] + rmSummary.byComplexity["Medium"]
             + rmSummary.byComplexity["High"] = Len(rmServers)

\* C27: each timeline entry's window contains all its phases: its startDate
\* is the first phase's startDate and its endDate is not earlier than the
\* last phase's endDate, so no phase reaches into the 7-day buffer or past
\* the start of the next entry.
C27_WindowContainsPhases ==
    \A i \in 1..Len(rmTimeline) :
        LET entry == rmTimeline[i]
            n == Len(entry.phases)
        IN n > 0 =>
             /\ entry.startDate = entry.phases[1].startDate
             /\ entry.endDate >= entry.phases[n].endDate
             /\ i < Len(rmTimeline) => entry.phases[n].endDate < rmTimeline[i + 1].startDate

\* C28: every timeline entry has a non-empty phase list and an endDate later
\* than its startDate, whatever the server's migration strategy.
C28_EntryHasPhases ==
    \A i \in 1..Len(rmTimeline) :
        /\ rmTimeline[i].phases # <<>>
        /\ rmTimeline[i].endDate > rmTimeline[i].startDate


(***************************************************************************)
(* SpecDiscovery: one call of EnhancedDiscoveryProcessor.collect_advanced_ *)
(* server_data (src/backend/lambda/discoveryProcessor/index.py).  A call   *)
(* of the inventory source answers "ok", with a ClientError or with an     *)
(* exception that is not one; a call of a method the class does not define *)
(* is an AttributeError.                                                   *)
(***************************************************************************)
\* Servers describe_servers can answer with.
MaxFound == 2

\* The methods of EnhancedDiscoveryProcessor that collect_advanced_server_data
\* reaches and the class defines.
DiscMethods ==
    {"get_detailed_server_info", "get_performance_metrics", "analyze_metric_trend",
     "get_application_details", "get_comprehensive_dependencies", "build_dependency_map",
     "analyze_direct_dependencies", "analyze_indirect_dependencies", "get_security_info",
     "get_network_topology", "store_raw_data", "get_sample_data"}

\* The steps of one pass of the loop, in the order Python evaluates them; of
\* each: the part of server_data it makes, whether its body is inside its own
\* try/except Exception, whether it calls the inventory source or S3, and
\* the methods of self it calls after that.
DiscSteps ==
    << [part |-> "details", ownTry |-> TRUE, calls |-> TRUE,
        uses |-> {}],
       [part |-> "metrics", ownTry |-> TRUE, calls |-> TRUE,
        uses |-> {"analyze_metric_trend"}],
       [part |-> "dependencies", ownTry |-> TRUE, calls |-> TRUE,
        uses |-> {"build_dependency_map", "analyze_direct_dependencies",
                  "analyze_indirect_dependencies", "map_service_dependencies",
                  "find_critical_path", "assess_dependency_risks"}],
       [part |-> "security", ownTry |-> FALSE, calls |-> FALSE,
        uses |-> {"scan_vulnerabilities", "check_compliance", "get_patch_status"}],
       [part |-> "applications", ownTry |-> TRUE, calls |-> TRUE,
        uses |-> {}],
       [part |-> "network", ownTry |-> TRUE, calls |-> TRUE,
        uses |-> {"analyze_network_interfaces", "analyze_connectivity",
                  "analyze_traffic_patterns"}],
       [part |-> "compliance", ownTry |-> FALSE, calls |-> FALSE,
        uses |-> {"assess_compliance"}],
       [part |-> "store", ownTry |-> TRUE, calls |-> TRUE,
        uses |-> {}] >>

\* The answers of a call of the inventory source or of S3.
DiscResp == {"ok", "NotFound", "AccessDenied", "exc"}

\* The error a step ends with after its call answered resp, "ok" if none.
DiscStepError(step, resp) ==
    IF step.calls /\ resp # "ok" THEN resp
    ELSE IF step.uses \subseteq DiscMethods THEN "ok"
    ELSE "AttributeError"

\* A faulty clause, for comparison: handling botocore's ClientError only.
CollectClauseClientError == "ClientError"

\* The except clause around the body of collect_advanced_server_data.
CollectClause == "Exception"

\* What an error e in the body of collect_advanced_server_data leads to:
\* return self.get_sample_data(), or the error leaves the method.
CollectFails(e) ==
    IF Catches(CollectClause, e)
    THEN dPc' = "returned" /\ dResult' = "sample"
    ELSE dPc' = "raised" /\ dResult' = "none"

\* self.discovery.describe_servers(...) and servers['servers'].
describe_servers ==
    /\ dPc = "idle"
    /\ \E resp \in DiscResp :
         IF resp = "ok"
         THEN /\ \E n \in 0..(IF dServerId THEN 1 ELSE MaxFound) : dFound' = n
              /\ dPc' = "loop" /\ dIdx' = 1 /\ dStep' = 1
              /\ UNCHANGED <<dResult, dFailed>>
         ELSE /\ CollectFails(resp)
              /\ dFailed' = dFailed \cup {<<"describe_servers", resp>>}
              /\ UNCHANGED <<dFound, dIdx, dStep>>
    /\ UNCHANGED <<dServerId, dParts, dCollected>>
    /\ UNCHANGED <<coreVars, depVars, raceVars, rmVars, webVars, costVars>>

\* One step of the pass for servers['servers'][dIdx]; after the last step
\* the server_data is appended to collected_data.
collect_step ==
    /\ dPc = "loop" /\ dIdx <= dFound
    /\ \E resp \in DiscResp :
         LET step == DiscSteps[dStep]
             e == DiscStepError(step, resp)
         IN /\ (~step.calls) => resp = "ok"
            /\ dFailed' = IF e = "ok" THEN dFailed ELSE dFailed \cup {<<step.part, e>>}
            /\ IF e # "ok" /\ ~step.ownTry
                 THEN /\ CollectFails(e)
                      /\ UNCHANGED <<dIdx, dStep, dParts, dCollected>>
                 ELSE LET parts == Append(dParts, IF e = "ok" THEN "filled" ELSE "empty")
                      IN /\ IF dStep < Len(DiscSteps)
                              THEN /\ dStep' = dStep + 1 /\ dParts' = parts
                                   /\ UNCHANGED <<dIdx, dCollected>>
                              ELSE /\ dStep' = 1 /\ dParts' = <<>>
                                   /\ dIdx' = dIdx + 1
                                   /\ dCollected' = Append(dCollected, parts)
                         /\ UNCHANGED <<dPc, dResult>>
    /\ UNCHANGED <<dServerId, dFound>>
    /\ UNCHANGED <<coreVars, depVars, raceVars, rmVars, webVars, costVars>>

\* return collected_data.
collect_return ==
    /\ dPc = "loop" /\ dIdx > dFound
    /\ dPc' = "returned" /\ dResult' = "collected"
    /\ UNCHANGED <<dServerId, dFound, dIdx, dStep, dParts, dCollected, dFailed>>
    /\ UNCHANGED <<coreVars, depVars, raceVars, rmVars, webVars, costVars>>

DiscoveryInit ==
    /\ dPc = "idle" /\ dServerId \in BOOLEAN /\ dFound = 0 /\ dIdx = 0 /\ dStep = 0
    /\ dParts = <<>> /\ dCollected = <<>> /\ dResult = "none" /\ dFailed = {}

InitDiscovery == CoreIdle /\ DepIdle /\ RaceIdle /\ RmIdle /\ DiscoveryInit /\ WebIdle /\ CostIdle

NextDiscovery ==
    \/ describe_servers
    \/ collect_step
    \/ collect_return

SpecDiscovery == InitDiscovery /\ [][NextDiscovery]_vars

\* C16: collect_advanced_server_data never raises to its caller; whatever
\* call of the inventory source or helper step failed, what it returns is
\* the built-in sample record list.
C16_NeverRaisesSampleOnFailure ==
    /\ dPc # "raised"
    /\ (dPc = "returned" /\ dFailed # {}) => dResult = "sample"

\* C16 witness: a call of the inventory source failed inside a helper that
\* handles its own errors, and the sample list was returned.
C16_HelperFailedSampleReturned ==
    /\ dPc = "returned" /\ dResult = "sample"
    /\ \E e \in ClientErrors : <<"details", e>> \in dFailed
    /\ \A f \in dFailed : f[1] # "describe_servers"

\* C22: when every call of the inventory source succeeded,
\* collect_advanced_server_data returns one record for each server the source
\* returned, and not the built-in sample list.
C22_OneRecordPerServer ==
    (dPc = "returned" /\ \A f \in dFailed : f[2] = "AttributeError") =>
        /\ dResult = "collected"
        /\ Len(dCollected) = dFound

(***************************************************************************)
(* SpecWeb: the front end (src/frontend/app.py): /api/upload-test-data,    *)
(* /api/analyze and /api/estimate over the file test-server.json.  Each    *)
(* request is one action; the response is its status code and the length  *)
(* of its results list.                                                    *)
(***************************************************************************)
\* Server ids a file or a request can name.
MaxIds == 2

\* What the metrics of a server in an uploaded file can hold: "full" has
\* every figure and positive values; "shallow" has the keys cpu, memory and
\* storage with nothing under them; "zero" has every figure, total sizes 0.
MetricsKinds == {"full", "shallow", "zero"}

\* What an upload can carry.
UploadKinds ==
    {"no_file", "no_name", "not_json_name", "invalid_json", "no_servers_key",
     "server_without_metrics", "metrics_without_cpu", "metrics_not_object", "servers"}

\* What the body of a POST can be: unparseable (request.json raises), JSON
\* that is not an object, an object without serverId, an object with one.
BodyKinds == {"unparseable", "not_object", "no_id", "id"}

\* A faulty validation, for comparison: the keys of metrics are not checked.
UploadValidationWithoutMetricsKeys(kind) ==
    CASE kind = "no_file" -> "no_file"
      [] kind = "no_name" -> "no_name"
      [] kind = "not_json_name" -> "invalid_type"
      [] kind = "invalid_json" -> "JSONDecodeError"
      [] kind \in {"no_servers_key", "server_without_metrics"} -> "ValueError"
      [] kind = "metrics_not_object" -> "TypeError"
      [] kind \in {"metrics_without_cpu", "servers"} -> "ok"

\* The validation of upload_test_data: the exception it ends with, "ok" if none.
UploadValidation(kind) ==
    CASE kind = "no_file" -> "no_file"
      [] kind = "no_name" -> "no_name"
      [] kind = "not_json_name" -> "invalid_type"
      [] kind = "invalid_json" -> "JSONDecodeError"
      [] kind \in {"no_servers_key", "server_without_metrics", "metrics_without_cpu"}
           -> "ValueError"
      [] kind = "metrics_not_object" -> "TypeError"
      [] kind = "servers" -> "ok"

\* The status upload_test_data answers a failed validation with: 400 from
\* the checks and the handlers of JSONDecodeError and ValueError, 500 from
\* the outer except Exception.
UploadStatus(error) == IF error = "TypeError" THEN 500 ELSE 400

\* POST /api/upload-test-data.
upload_test_data ==
    /\ \E kind \in UploadKinds :
       \E ids \in SUBSET (1..MaxIds) : \E servers \in [ids -> MetricsKinds] :
         /\ kind # "servers" => ids = {}
         /\ webReq' = [op |-> "upload", body |-> kind, serverId |-> 0]
         /\ IF UploadValidation(kind) = "ok"
              THEN /\ webHasFile' = TRUE /\ webFile' = servers
                   /\ webStatus' = 200 /\ webResults' = 0
              ELSE /\ webStatus' = UploadStatus(UploadValidation(kind)) /\ webResults' = 0
                   /\ UNCHANGED <<webHasFile, webFile>>
    /\ webStored' = "none"
    /\ UNCHANGED <<coreVars, depVars, raceVars, rmVars, discVars, costVars>>

\* The error the lookup of the server in test-server.json ends with.
ServerLookup(body, id) ==
    CASE body = "unparseable" -> "BadRequest"
      [] body = "not_object" -> "AttributeError"
      [] body = "no_id" -> "no_id"
      [] body = "id" -> IF ~webHasFile THEN "FileNotFoundError"
                        ELSE IF id \notin DOMAIN webFile THEN "not_found"
                        ELSE "ok"

\* The status of a lookup that did not find the server.
LookupStatus(lookup) ==
    CASE lookup = "no_id" -> 400
      [] lookup = "not_found" -> 404
      [] OTHER -> 500

\* The arithmetic on the server's metrics: KeyError on a missing figure,
\* ZeroDivisionError on a total of 0.
MetricsError(kind) ==
    CASE kind = "full" -> "ok"
      [] kind = "shallow" -> "KeyError"
      [] kind = "zero" -> "ZeroDivisionError"

\* The answers of table.put_item in store_analysis_results and
\* store_cost_estimate; every failure is logged and passed over.
StoreResp == {"ok", "ThrottlingException", "exc"}

\* The handling analyze_server and estimate_costs share: the lookup of the
\* server, the arithmetic on its metrics, the storing of the result.
WebServerRequest(op, results) ==
    \E body \in BodyKinds : \E id \in 1..MaxIds : \E stored \in StoreResp :
         LET lookup == ServerLookup(body, id)
         IN /\ webReq' = [op |-> op, body |-> body, serverId |-> IF body = "id" THEN id ELSE 0]
            /\ body # "id" => id = 1
            /\ IF lookup # "ok"
                 THEN /\ webStatus' = LookupStatus(lookup) /\ webResults' = 0
                      /\ webStored' = "none" /\ stored = "ok"
                 ELSE IF MetricsError(webFile[id]) # "ok"
                 THEN /\ webStatus' = 500 /\ webResults' = 0
                      /\ webStored' = "none" /\ stored = "ok"
                 ELSE /\ webStatus' = 200 /\ webResults' = results
                      /\ webStored' = stored

\* POST /api/analyze: 'results': [analysis_result].
analyze_server ==
    /\ WebServerRequest("analyze", 1)
    /\ UNCHANGED <<webHasFile, webFile>>
    /\ UNCHANGED <<coreVars, depVars, raceVars, rmVars, discVars, costVars>>

\* POST /api/estimate: the estimate itself is the response, no results list.
estimate_costs ==
    /\ WebServerRequest("estimate", 0)
    /\ UNCHANGED <<webHasFile, webFile>>
    /\ UNCHANGED <<coreVars, depVars, raceVars, rmVars, discVars, costVars>>

\* GET /api/servers: the servers of test-server.json if the file exists, else
\* the agents of the Discovery Service whose details were found (none
\* without a client or when describe_agents fails).
get_servers ==
    /\ webReq' = [op |-> "servers", body |-> "none", serverId |-> 0]
    /\ webStatus' = 200
    /\ IF webHasFile
         THEN webResults' = Cardinality(DOMAIN webFile)
         ELSE \E agents \in 0..MaxIds : webResults' = agents
    /\ webStored' = "none"
    /\ UNCHANGED <<webHasFile, webFile>>
    /\ UNCHANGED <<coreVars, depVars, raceVars, rmVars, discVars, costVars>>

InitWeb == CoreIdle /\ DepIdle /\ RaceIdle /\ RmIdle /\ DiscIdle /\ WebIdle /\ CostIdle

NextWeb ==
    \/ upload_test_data
    \/ analyze_server
    \/ estimate_costs
    \/ get_servers

SpecWeb == InitWeb /\ [][NextWeb]_vars

\* C13: after /api/upload-test-data has accepted a file, /api/analyze with a
\* serverId contained in the file returns 200 with a non-empty results list,
\* and with a serverId not contained in it returns 404.
C13_UploadThenAnalyze ==
    (webHasFile /\ webReq.op = "analyze" /\ webReq.body = "id")
      => IF webReq.serverId \in DOMAIN webFile
         THEN webStatus = 200 /\ webResults > 0
         ELSE webStatus = 404

\* C17: every error response of /api/analyze, /api/estimate and
\* /api/upload-test-data carries the status code of its error class: 404 when
\* the requested server is missing, 400 for bad input, 429 when the backing
\* AWS call was throttled, 500 otherwise.
C17_StatusOfErrorClass ==
    webStatus >= 400
      => IF webReq.op = "upload" \/ webReq.body \in {"unparseable", "not_object", "no_id"}
         THEN webStatus = 400
         ELSE IF ~webHasFile \/ webReq.serverId \notin DOMAIN webFile
         THEN webStatus = 404
         ELSE IF webStored = "ThrottlingException"
         THEN webStatus = 429
         ELSE webStatus = 500

\* C26: an upload that is rejected (no file, wrong extension, invalid JSON,
\* no 'servers' key, a server without a required field or metric) answers
\* 400 and leaves test-server.json as it was, so that /api/servers and
\* /api/analyze go on reading the previous data.
C26_RejectedUploadKeepsFile ==
    [][(webReq'.op = "upload"
          /\ webReq'.body \in {"no_file", "no_name", "not_json_name", "invalid_json",
                                "no_servers_key", "server_without_metrics",
                                "metrics_without_cpu"})
         => /\ webStatus' = 400
            /\ webHasFile' = webHasFile
            /\ webFile' = webFile]_vars

\* C26 witness: an upload of invalid JSON was answered 400 while
\* test-server.json holds the servers of an earlier upload.
C26_RejectedOverStoredServers ==
    /\ webReq.op = "upload" /\ webReq.body = "invalid_json" /\ webStatus = 400
    /\ webHasFile /\ DOMAIN webFile # {}

(***************************************************************************)
(* SpecCost: one call of CostEstimator.calculate_total_cost                *)
(* (src/backend/lambda/costEstimator/index.py): the compute, storage and   *)
(* migration estimators it calls, in its order.  Sizes are in MB as the    *)
(* metrics give them; a size in GB is the size in MB over 1024, so a       *)
(* comparison with g GB is a comparison of the MB with g * 1024.           *)
(***************************************************************************)
\* How far around each threshold of the estimators the drawn figures go.
MaxDelta == 2

\* monthly_hours.
monthly_hours == 730
\* pricing['storage']['s3']['standard']: free_tier_storage (GB), free_tier_requests.
free_tier_storage == 5
free_tier_requests == 2000
\* estimated_put_requests of _calculate_s3_costs.
estimated_put_requests == 10000
\* The largest volume, in GB, that _calculate_ebs_costs puts on gp3.
gp3_limit_gb == 150

Max0(x) == IF x > 0 THEN x ELSE 0
Min2(a, b) == IF a < b THEN a ELSE b

\* pricing['compute']['ec2'] in the order of the dict: memory in GB, hourly in
\* 1/10000 USD, freeTierHours 0 where the key is missing.
Ec2 ==
    << [name |-> "t3.micro", cpu |-> 2, memory |-> 1, hourly |-> 113, freeTierHours |-> 750],
       [name |-> "t3.small", cpu |-> 2, memory |-> 2, hourly |-> 226, freeTierHours |-> 0],
       [name |-> "t3.medium", cpu |-> 2, memory |-> 4, hourly |-> 452, freeTierHours |-> 0],
       [name |-> "t3.large", cpu |-> 2, memory |-> 8, hourly |-> 904, freeTierHours |-> 0],
       [name |-> "m5.large", cpu |-> 2, memory |-> 8, hourly |-> 1060, freeTierHours |-> 0],
       [name |-> "c5.large", cpu |-> 2, memory |-> 4, hourly |-> 890, freeTierHours |-> 0],
       [name |-> "r5.large", cpu |-> 2, memory |-> 16, hourly |-> 1330, freeTierHours |-> 0] >>

\* The instance estimate_compute_costs picks: the first cheapest of those with
\* enough cpu and memory, r5.large if there is none.
ChooseInstance(specs) ==
    LET suitable == {i \in 1..Len(Ec2) :
                       Ec2[i].cpu >= specs.cores /\ Ec2[i].memory * 1024 >= specs.memTotal}
    IN IF suitable = {} THEN Ec2[Len(Ec2)]
       ELSE Ec2[CHOOSE i \in suitable :
                  \A j \in suitable :
                      Ec2[i].hourly < Ec2[j].hourly \/ (Ec2[i].hourly = Ec2[j].hourly /\ i <= j)]

\* A faulty allowance, for comparison: the instance's free hours taken whole,
\* as estimate_database_costs takes them.
FreeHoursUncapped(instance, use_free_tier) ==
    IF use_free_tier /\ instance.freeTierHours > 0 THEN instance.freeTierHours ELSE 0

\* free_hours of estimate_compute_costs: min(specs['freeTierHours'], monthly_hours)
\* when the free tier applies and the instance has the key.
FreeHours(instance, use_free_tier) ==
    IF use_free_tier /\ instance.freeTierHours > 0
    THEN Min2(instance.freeTierHours, monthly_hours)
    ELSE 0

\* estimate_compute_costs: the instance and the hours that are billed.
estimate_compute_costs ==
    /\ cPc = "compute"
    /\ LET instance == ChooseInstance(cSpecs)
       IN /\ cInstance' = instance.name
          /\ cHours' = monthly_hours - FreeHours(instance, cUseFreeTier)
    /\ cPc' = "storage"
    /\ UNCHANGED <<cSpecs, cUseFreeTier, cEbsType, cS3Storage, cS3Put, cCpuPoints, cScore>>
    /\ UNCHANGED <<coreVars, depVars, raceVars, rmVars, discVars, webVars>>

\* A faulty tier choice, for comparison: gp3 only below the limit.
EbsTypeBelowLimit(storage_mb) ==
    IF storage_mb < gp3_limit_gb * 1024 THEN "gp3" ELSE "io1"

\* _calculate_ebs_costs: storage_type for a volume of storage_mb / 1024 GB.
EbsType(storage_mb) ==
    IF storage_mb <= gp3_limit_gb * 1024 THEN "gp3" ELSE "io1"

\* _calculate_s3_costs: the storage billed for storage_gb = 0.3 * storage_mb / 1024,
\* in 1/10240 GB.
S3BilledStorage(storage_mb, use_free_tier) ==
    IF use_free_tier THEN Max0(3 * storage_mb - free_tier_storage * 10240)
    ELSE 3 * storage_mb

\* _calculate_s3_costs: put_requests.
S3BilledPut(use_free_tier) ==
    IF use_free_tier THEN Max0(estimated_put_requests - free_tier_requests)
    ELSE estimated_put_requests

\* estimate_storage_costs: _calculate_ebs_costs and _calculate_s3_costs.
estimate_storage_costs ==
    /\ cPc = "storage"
    /\ cEbsType' = EbsType(cSpecs.storageTotal)
    /\ cS3Storage' = S3BilledStorage(cSpecs.storageTotal, cUseFreeTier)
    /\ cS3Put' = S3BilledPut(cUseFreeTier)
    /\ cPc' = "migration"
    /\ UNCHANGED <<cSpecs, cUseFreeTier, cInstance, cHours, cCpuPoints, cScore>>
    /\ UNCHANGED <<coreVars, depVars, raceVars, rmVars, discVars, webVars>>

\* A faulty CPU factor, for comparison: the thresholds taken inclusively.
CpuPointsInclusive(cpu_util) ==
    IF cpu_util >= 80 THEN 3 ELSE IF cpu_util >= 60 THEN 2 ELSE 1

\* _estimate_migration_costs: the CPU utilization factor.
CpuPoints(cpu_util) ==
    IF cpu_util > 80 THEN 3 ELSE IF cpu_util > 60 THEN 2 ELSE 1

\* _estimate_migration_costs: the memory factor, memory_util = used / total * 100.
MemoryPoints(used, total) ==
    IF used * 100 > 80 * total THEN 3 ELSE IF used * 100 > 60 * total THEN 2 ELSE 1

\* _estimate_migration_costs: the storage factor.
StoragePoints(storage_mb) ==
    IF storage_mb > 1000 * 1024 THEN 3 ELSE IF storage_mb > 500 * 1024 THEN 2 ELSE 1

\* _estimate_migration_costs: complexity_score.
estimate_migration_costs ==
    /\ cPc = "migration"
    /\ cCpuPoints' = CpuPoints(cSpecs.cpuUtil)
    /\ cScore' = CpuPoints(cSpecs.cpuUtil) + MemoryPoints(cSpecs.memUsed, cSpecs.memTotal)
                  + StoragePoints(cSpecs.storageTotal) + Min2(cSpecs.dependencies, 3)
    /\ cPc' = "done"
    /\ UNCHANGED <<cSpecs, cUseFreeTier, cInstance, cHours, cEbsType, cS3Storage, cS3Put>>
    /\ UNCHANGED <<coreVars, depVars, raceVars, rmVars, discVars, webVars>>

\* The figures drawn: around every threshold of the estimators.
Around(points) == {q + d : q \in points, d \in (0 - MaxDelta)..MaxDelta}

CostSpecsDrawn ==
    [cores : {2, 4},
     cpuUtil : {0, 100} \cup Around({60, 80}),
     memTotal : {1024, 65536},
     memUsed : {512, 1000},
     storageTotal : {0} \cup Around({17067, 150 * 1024, 500 * 1024, 1000 * 1024}),
     dependencies : {0, 4}]

CostInit ==
    /\ cPc = "compute" /\ cSpecs \in CostSpecsDrawn /\ cUseFreeTier \in BOOLEAN
    /\ cInstance = "none" /\ cHours = 0 /\ cEbsType = "none" /\ cS3Storage = 0
    /\ cS3Put = 0 /\ cCpuPoints = 0 /\ cScore = 0

InitCost == CoreIdle /\ DepIdle /\ RaceIdle /\ RmIdle /\ DiscIdle /\ WebIdle /\ CostInit

NextCost ==
    \/ estimate_compute_costs
    \/ estimate_storage_costs
    \/ estimate_migration_costs

SpecCost == InitCost /\ [][NextCost]_vars

\* C18: the block-storage estimator selects gp3 for every total storage size
\* up to and including 150 GB and io1 for every size above 150 GB.
C18_EbsTierAt150 ==
    cPc \in {"migration", "done"}
      => /\ cSpecs.storageTotal <= 153600 => cEbsType = "gp3"
         /\ cSpecs.storageTotal > 153600 => cEbsType = "io1"

\* C18 witness: a volume of exactly 150 GB was put on gp3.
C18_Exactly150OnGp3 ==
    cPc = "done" /\ cSpecs.storageTotal = 153600 /\ cEbsType = "gp3"

\* C19: with the free tier enabled, what is billed after the free-tier
\* subtraction is never negative: the compute hours, the S3 storage and the
\* S3 PUT requests, for every server with non-negative metrics.
C19_BilledNeverNegative ==
    cUseFreeTier => cHours >= 0 /\ cS3Storage >= 0 /\ cS3Put >= 0

\* C19 witness: the free tier covered all hours of a t3.micro and all the S3
\* storage of a small server.
C19_FreeTierCoversAll ==
    /\ cPc = "done" /\ cUseFreeTier /\ cInstance = "t3.micro"
    /\ cHours = 0 /\ cS3Storage = 0 /\ cSpecs.storageTotal > 0 /\ cS3Put = 8000

\* C20: the CPU contribution to the complexity score is 3 only for utilization
\* strictly above 80, 2 for utilization above 60 and up to and including 80,
\* and 1 otherwise; exactly 80 contributes 2.
C20_CpuContribution ==
    cPc = "done"
      => /\ cCpuPoints = 3 <=> cSpecs.cpuUtil > 80
         /\ cCpuPoints = 2 <=> (cSpecs.cpuUtil > 60 /\ cSpecs.cpuUtil <= 80)
         /\ cCpuPoints = 1 <=> cSpecs.cpuUtil <= 60
         /\ cSpecs.cpuUtil = 80 => cCpuPoints = 2

\* C20 witness: a server at exactly 80% CPU was scored 2 points for it.
C20_Exactly80Scores2 ==
    cPc = "done" /\ cSpecs.cpuUtil = 80 /\ cCpuPoints = 2


\* ---------------------------------------------------------------------------
\* SpecStrength: one call of DiscoveryProcessor.calculate_dependency_strength.
\* Scores are kept in whole numbers: a normalized metric in hundredths, the
\* weighted sum in thousandths, the rounded result in hundredths.
\* ---------------------------------------------------------------------------

\* How far past both ends of [0, 100] the drawn metrics reach.
MaxOver == 1

\* A faulty normalize_metric, for comparison: values above 100 are not clamped.
normalize_metric_unclamped(value) == IF value < 0 THEN 0 ELSE value

\* normalize_metric, in hundredths: 0 below 0, 1 above 100, value / 100 between.
normalize_metric(value) ==
    IF value < 0 THEN 0
    ELSE IF value > 100 THEN 100
    ELSE value

\* weights, in tenths.
weights == [frequency |-> 4, averageLatency |-> 3, averageThroughput |-> 2, errorRate |-> 1]

\* normalized_score, in thousandths: the sum over the four factors of
\* normalize_metric(value) * weights[metric].
normalized_score(dependency) ==
      normalize_metric(dependency.frequency) * weights.frequency
    + normalize_metric(dependency.averageLatency) * weights.averageLatency
    + normalize_metric(dependency.averageThroughput) * weights.averageThroughput
    + normalize_metric(dependency.errorRate) * weights.errorRate

\* round(score, 2), from thousandths to hundredths: the nearest hundredth; a
\* score halfway between two hundredths goes to either, as the binary float
\* that holds it lies a hair above or below the half.
round2(score) ==
    IF score % 10 = 5 THEN {score \div 10, score \div 10 + 1}
    ELSE {(score + 5) \div 10}

calculate_dependency_strength ==
    /\ sPc = "drawn"
    /\ \E r \in round2(normalized_score(sDependency)) : sStrength' = r
    /\ sPc' = "done"
    /\ UNCHANGED <<sDependency, gPc, gMap, gVisited, gStack, gIndirect>>
    /\ UNCHANGED <<coreVars, raceVars, rmVars, discVars, webVars, costVars>>

\* The values a metric of the record is drawn from; a missing key reads as 0.
MetricValues == (0 - MaxOver .. MaxOver) \cup {50} \cup (100 - MaxOver .. 100 + MaxOver)

StrengthInit ==
    /\ sPc = "drawn"
    /\ sDependency \in [frequency : MetricValues, averageLatency : MetricValues,
                        averageThroughput : MetricValues, errorRate : MetricValues]
    /\ sStrength = 0

InitStrength ==
    CoreIdle /\ RaceIdle /\ RmIdle /\ DiscIdle /\ WebIdle /\ CostIdle /\ StrengthInit /\ IndirectIdle

NextStrength == calculate_dependency_strength

SpecStrength == InitStrength /\ [][NextStrength]_vars

\* The weighted sum of the clamped metrics as the claim writes it, in thousandths.
ClaimedSum(d) ==
    LET n(v) == IF v < 0 THEN 0 ELSE IF v > 100 THEN 100 ELSE v
    IN  4 * n(d.frequency) + 3 * n(d.averageLatency) + 2 * n(d.averageThroughput)
        + n(d.errorRate)

\* C21 as stated: the strength returned equals 0.4*n(frequency) + 0.3*n(latency)
\* + 0.2*n(throughput) + 0.1*n(errorRate) exactly, lies in [0, 1], and is 0.40
\* for frequency = 100 with the other three at 0.
C21_StrengthIsWeightedSum ==
    sPc = "done" =>
        /\ sStrength * 10 = ClaimedSum(sDependency)
        /\ sStrength \in 0..100
        /\ (sDependency = [frequency |-> 100, averageLatency |-> 0,
                           averageThroughput |-> 0, errorRate |-> 0] => sStrength = 40)

\* C21 as amended: the strength returned is that weighted sum rounded to two
\* decimal places, so it is a whole number of hundredths within 0.005 of the
\* sum; it lies in [0, 1], and is 0.40 for frequency = 100 with the others at 0.
C21_StrengthIsRoundedSum ==
    sPc = "done" =>
        /\ sStrength * 10 - ClaimedSum(sDependency) \in -5..5
        /\ sStrength \in 0..100
        /\ (sDependency = [frequency |-> 100, averageLatency |-> 0,
                           averageThroughput |-> 0, errorRate |-> 0] => sStrength = 40)

\* A record whose weighted sum, 0.004, is not a whole number of hundredths has
\* been scored, and one metric of it was clamped.
C21_RoundedAndClamped ==
    /\ sPc = "done"
    /\ sDependency = [frequency |-> 1, averageLatency |-> 0 - 1,
                      averageThroughput |-> 0, errorRate |-> 0]
    /\ sStrength = 0


\* ---------------------------------------------------------------------------
\* SpecIndirect: DiscoveryProcessor.analyze_indirect_dependencies over a
\* dependency_map that calls of build_dependency_map have filled.  Servers
\* are numbered; the traversal starts at server 1.  One action is one pass of
\* the for loop of the innermost find_indirect_deps in progress.
\* ---------------------------------------------------------------------------

\* The most servers a drawn dependency_map chains one after the other.
MaxChain == 12

\* The depth find_indirect_deps does not go beyond.
depth_limit == 10

\* build_dependency_map: an entry for server_id if it has none, then every
\* destinationServerId added to its direct_deps; no entry for a destination.
build_dependency_map(map, server_id, dests) ==
    IF server_id \in DOMAIN map
    THEN [map EXCEPT ![server_id] = @ \cup dests]
    ELSE [s \in DOMAIN map \cup {server_id} |->
             IF s = server_id THEN dests ELSE map[s]]

RECURSIVE ChainMap(_, _)
\* dependency_map after build_dependency_map for the servers 1..k of a chain
\* of n servers, each depending on the next.
ChainMap(k, n) ==
    IF k = 0 THEN <<>>
    ELSE build_dependency_map(ChainMap(k - 1, n), k, IF k < n THEN {k + 1} ELSE {})

RECURSIVE find_all_paths(_, _, _)
\* find_all_paths(start, end, visited): the paths it returns, as a set.
find_all_paths(start, end, visited) ==
    IF start \notin DOMAIN gMap THEN {}
    ELSE IF start = end THEN {<<start>>}
    ELSE UNION { { <<start>> \o path :
                     path \in find_all_paths(next_server, end, visited \cup {start}) } :
                 next_server \in gMap[start] \ (visited \cup {start}) }

\* A call find_indirect_deps(current_id, depth): it returns at once beyond the
\* depth limit or for a server without an entry, else it starts its loop.
EnterFindIndirectDeps(stack, current_id, depth) ==
    IF depth > depth_limit \/ current_id \notin DOMAIN gMap
    THEN stack
    ELSE Append(stack, [id |-> current_id, depth |-> depth, todo |-> gMap[current_id]])

\* visited = {server_id}; find_indirect_deps(server_id).
analyze_indirect_dependencies ==
    /\ gPc = "built"
    /\ gPc' = "running"
    /\ gVisited' = {1}
    /\ gIndirect' = <<>>
    /\ gStack' = EnterFindIndirectDeps(<<>>, 1, 0)
    /\ UNCHANGED <<sPc, sDependency, sStrength, gMap>>
    /\ UNCHANGED <<coreVars, raceVars, rmVars, discVars, webVars, costVars>>

\* One pass of the loop over direct_deps, in whatever order the set yields
\* its members.
find_indirect_deps ==
    /\ gPc = "running" /\ gStack # <<>>
    /\ LET top == gStack[Len(gStack)]
       IN /\ top.todo # {}
          /\ \E dep_id \in top.todo :
               LET rest == [gStack EXCEPT ![Len(gStack)].todo = @ \ {dep_id}]
                   paths == find_all_paths(1, dep_id, {})
               IN IF dep_id \in gVisited
                  THEN gStack' = rest /\ UNCHANGED <<gVisited, gIndirect>>
                  ELSE /\ gVisited' = gVisited \cup {dep_id}
                       /\ IF paths # {}
                          THEN \E p \in paths :
                                 gIndirect' = Append(gIndirect,
                                     [serverId |-> dep_id, path |-> p,
                                      depth |-> top.depth + 1])
                          ELSE UNCHANGED gIndirect
                       /\ gStack' = EnterFindIndirectDeps(rest, dep_id, top.depth + 1)
    /\ UNCHANGED <<sPc, sDependency, sStrength, gPc, gMap>>
    /\ UNCHANGED <<coreVars, raceVars, rmVars, discVars, webVars, costVars>>

\* The loop of the innermost call is over: the call returns.
find_indirect_deps_returns ==
    /\ gPc = "running" /\ gStack # <<>>
    /\ gStack[Len(gStack)].todo = {}
    /\ gStack' = SubSeq(gStack, 1, Len(gStack) - 1)
    /\ UNCHANGED <<sPc, sDependency, sStrength, gPc, gMap, gVisited, gIndirect>>
    /\ UNCHANGED <<coreVars, raceVars, rmVars, discVars, webVars, costVars>>

\* return indirect_deps.
indirect_return ==
    /\ gPc = "running" /\ gStack = <<>>
    /\ gPc' = "returned"
    /\ UNCHANGED <<sPc, sDependency, sStrength, gMap, gVisited, gStack, gIndirect>>
    /\ UNCHANGED <<coreVars, raceVars, rmVars, discVars, webVars, costVars>>

\* The dependency maps drawn: a chain of n servers of which the first k have
\* had build_dependency_map called for them (with k = n - 1 the last server
\* is a destination only), and at most one more dependency, of the first or
\* of the last of these k servers on any server of the chain.
IndirectInit ==
    /\ gPc = "built"
    /\ \E n \in 1..MaxChain : \E k \in {n - 1, n} : \E from \in {1, k} : \E to \in 0..n :
         /\ (k = 0) => (to = 0 /\ from = 1)
         /\ gMap = IF to = 0 \/ k = 0 THEN ChainMap(k, n)
                   ELSE build_dependency_map(ChainMap(k, n), from, {to})
    /\ gVisited = {} /\ gStack = <<>> /\ gIndirect = <<>>

InitIndirect ==
    CoreIdle /\ RaceIdle /\ RmIdle /\ DiscIdle /\ WebIdle /\ CostIdle /\ StrengthIdle /\ IndirectInit

NextIndirect ==
    \/ analyze_indirect_dependencies
    \/ find_indirect_deps
    \/ find_indirect_deps_returns
    \/ indirect_return

SpecIndirect == InitIndirect /\ [][NextIndirect]_vars

\* C23: every entry analyze_indirect_dependencies reports has a depth of at
\* most 10 and names a server other than the start server, and no server is
\* reported twice, cyclic dependency maps included.
C23_DepthAtMost10NoRepeat ==
    \A i \in 1..Len(gIndirect) :
        /\ gIndirect[i].depth <= 10
        /\ gIndirect[i].serverId # 1
        /\ \A j \in 1..Len(gIndirect) :
             gIndirect[j].serverId = gIndirect[i].serverId => j = i

RECURSIVE ReachableWithin(_, _)
\* The servers at most d direct-dependency edges away from a server of from.
ReachableWithin(from, d) ==
    IF d = 0 THEN from
    ELSE ReachableWithin(
             from \cup UNION { gMap[s] : s \in from \cap DOMAIN gMap }, d - 1)

\* C29: analyze_indirect_dependencies reports every server that is reachable
\* from the start server along direct-dependency edges within the depth
\* limit, servers without an entry of their own included.
C29_ReportsEveryReachable ==
    gPc = "returned" =>
        \A s \in ReachableWithin({1}, 10) \ {1} :
            \E i \in 1..Len(gIndirect) : gIndirect[i].serverId = s

====
